---------------------------- MODULE Spec2Model ----------------------------
(***************************************************************************)
(* Model of the DuckHunt Windows agent (package duckhunt_win): the         *)
(* keystroke Detector, the capture Daemon, the Orchestrator (controller)   *)
(* and the Watchdog supervisor; and of the legacy package's (duckhunt)     *)
(* ParanoidPolicy.                                                         *)
(*                                                                         *)
(* The module holds several specifications over one set of variables:      *)
(*   Spec          the Daemon's run loop, its main-channel connection and  *)
(*                 the Orchestrator's command side (send_command,          *)
(*                 _shutdown);                                             *)
(*   SpecIncident  the Orchestrator's event logic: the channel thread      *)
(*                 (handle_client), the session-monitor thread (lock and   *)
(*                 unlock callbacks) and the main loop (process_gui_queue);*)
(*   SpecSup       the processes: the Orchestrator's start and its         *)
(*                 monitoring of the Watchdog, Watchdog ticks, Daemon      *)
(*                 launches, the main channel's accept loop; SpecSupFair   *)
(*                 adds the fairness of the loops;                         *)
(*   SpecLife      processes started in the Orchestrator role, from main() *)
(*                 (single-instance check) over start() to _shutdown;      *)
(*   SpecDet       a KeystrokeDetector on its own, under keystrokes,       *)
(*                 settings updates and resets;                            *)
(*   SpecCfg       the Orchestrator's configuration (loaded, saved in the  *)
(*                 settings window) and the settings of the connected      *)
(*                 Daemon;                                                 *)
(*   SpecHandle    the Orchestrator's client handle under the accept loop  *)
(*                 and the threads that call send_command, statement by    *)
(*                 statement;                                              *)
(*   SpecMon       a SessionMonitor: its thread's message loop, start()    *)
(*                 and stop();                                             *)
(*   SpecHook      Spec with the tray's Start and Stop only, counting the  *)
(*                 keyboard hooks of the Daemon's process;                 *)
(*   SpecWd        SpecSup's processes with update_watchdog_state;         *)
(*   SpecShut      SpecSup's processes with _shutdown, step by step;       *)
(*   SpecAuto      one Orchestrator lifetime with _auto_start_monitor;     *)
(*   SpecPara      the legacy package's ParanoidPolicy under keystrokes.   *)
(* Each specification leaves the variables of the others unchanged.        *)
(***************************************************************************)
EXTENDS Integers, Sequences, FiniteSets, TLC

(***************************************************************************)
(* Bounds of the model.                                                    *)
(***************************************************************************)
\* longest queue of commands buffered in the pipe towards the Daemon
MaxInbox == 2
\* saturation value of the history counters (calls counted)
MaxCount == 2

(***************************************************************************)
(* Program constants.                                                      *)
(***************************************************************************)
\* KeystrokeDetector.__init__ defaults
DefaultThresholdMs == 30
DefaultHistorySize == 25
DefaultBurstKeys == 10
DefaultBurstWindowMs == 100

Sat(n) == IF n >= MaxCount THEN MaxCount ELSE n

(***************************************************************************)
(* Detector (duckhunt_win/detector.py).  The window is a                   *)
(* collections.deque(maxlen=...): timestamps is its contents, maxlen its   *)
(* capacity.                                                               *)
(***************************************************************************)
\* Variant: a full deque drops its newest entry for the appended one.
DequeAppendEvictsNewest(q, maxlen, x) ==
    IF maxlen = 0 THEN q
    ELSE IF Len(q) >= maxlen THEN Append(SubSeq(q, 1, Len(q) - 1), x)
    ELSE Append(q, x)

\* deque.append on a bounded deque: a full deque drops its oldest entry,
\* a deque of capacity 0 stays empty.
DequeAppend(q, maxlen, x) ==
    IF maxlen = 0 THEN q
    ELSE IF Len(q) >= maxlen THEN Append(Tail(q), x)
    ELSE Append(q, x)

\* Variant: the rebuilt deque keeps the first n items.
DequeFromOldest(q, n) ==
    IF n >= Len(q) THEN q ELSE SubSeq(q, 1, n)

\* deque(iterable, maxlen=n): keeps the last n items in order.
DequeFrom(q, n) ==
    IF n >= Len(q) THEN q ELSE SubSeq(q, Len(q) - n + 1, Len(q))

KeystrokeDetector ==
    [threshold_ms    |-> DefaultThresholdMs,
     history_size    |-> DefaultHistorySize,
     burst_keys      |-> DefaultBurstKeys,
     burst_window_ms |-> DefaultBurstWindowMs,
     allow_auto_type |-> TRUE,
     timestamps      |-> << >>,
     maxlen          |-> DefaultHistorySize]

\* Variant: a settings update that changes history_size raises.
update_settings_resize_raises(k, p) ==
    [det |-> [k EXCEPT !.threshold_ms = p.threshold,
                       !.burst_keys = p.burst_keys,
                       !.burst_window_ms = p.burst_window_ms,
                       !.allow_auto_type = p.allow_auto_type,
                       !.history_size = p.history_size],
     raised |-> p.history_size # k.history_size]

\* update_settings: the scalar settings are assigned first; the deque is
\* rebuilt only when history_size differs, and deque(..., maxlen=n) raises
\* ValueError for n < 0 after self.history_size has been assigned.
update_settings(k, p) ==
    LET k1 == [k EXCEPT !.threshold_ms = p.threshold,
                        !.burst_keys = p.burst_keys,
                        !.burst_window_ms = p.burst_window_ms,
                        !.allow_auto_type = p.allow_auto_type]
    IN  IF p.history_size = k.history_size
        THEN [det |-> k1, raised |-> FALSE]
        ELSE IF p.history_size < 0
        THEN [det |-> [k1 EXCEPT !.history_size = p.history_size],
              raised |-> TRUE]
        ELSE [det |-> [k1 EXCEPT !.history_size = p.history_size,
                                 !.maxlen = p.history_size,
                                 !.timestamps = DequeFrom(@, p.history_size)],
              raised |-> FALSE]

\* Variant: the speed check does not wait for a full window.
check_speed_any_length(k) ==
    LET n == Len(k.timestamps)
    IN  IF n <= 1 THEN [raised |-> n >= k.history_size, value |-> FALSE]
        ELSE [raised |-> FALSE,
              value  |-> (k.timestamps[n] - k.timestamps[1])
                            < k.threshold_ms * (n - 1)]

\* _check_speed: IndexError on an empty window, ZeroDivisionError on a
\* window of one entry; avg_interval < threshold_ms is compared without
\* dividing (len - 1 > 0 there).
check_speed(k) ==
    LET n == Len(k.timestamps)
    IN  IF n < k.history_size THEN [raised |-> FALSE, value |-> FALSE]
        ELSE IF n <= 1 THEN [raised |-> TRUE, value |-> FALSE]
        ELSE [raised |-> FALSE,
              value  |-> (k.timestamps[n] - k.timestamps[1])
                            < k.threshold_ms * (n - 1)]

\* Position (1-based) of self._timestamps[-burst_keys] in a window of n.
BurstStartPos(b, n) == IF b > 0 THEN n - b + 1 ELSE 1 - b

\* _check_burst
check_burst(k) ==
    LET n   == Len(k.timestamps)
        pos == BurstStartPos(k.burst_keys, n)
    IN  IF n < k.burst_keys THEN [raised |-> FALSE, value |-> FALSE]
        ELSE IF pos < 1 \/ pos > n THEN [raised |-> TRUE, value |-> FALSE]
        ELSE [raised |-> FALSE,
              value  |-> (k.timestamps[n] - k.timestamps[pos])
                            < k.burst_window_ms]

\* process_keystroke(timestamp): append, then speed check or burst check.
process_keystroke(k, timestamp) ==
    LET k1 == [k EXCEPT !.timestamps = DequeAppend(@, k.maxlen, timestamp)]
        s  == check_speed(k1)
        b  == check_burst(k1)
    IN  IF s.raised THEN [det |-> k1, raised |-> TRUE, value |-> FALSE]
        ELSE IF s.value THEN [det |-> k1, raised |-> FALSE, value |-> TRUE]
        ELSE [det |-> k1, raised |-> b.raised, value |-> b.value]

\* reset
reset(k) == [k EXCEPT !.timestamps = << >>]


(***************************************************************************)
(* State.                                                                  *)
(***************************************************************************)
VARIABLES
    daemon,   \* DuckHuntDaemon: [pc, conn, running, hook, detector]
    peer,     \* TRUE while the server end of the Daemon's connection is open
    inbox,    \* commands written to the pipe and not yet received by the Daemon
    ctl,      \* DuckHuntController: [pc, client_conn, err, daemon_status,
              \*   is_locked, incident_pending, gui_queue, running_state]
    hist,     \* history of the run, read only by the properties
    session,  \* TRUE while the workstation session is locked
    wts,      \* session notifications posted to the monitor's window
    mon,      \* position of the session-monitor thread in its callback
    obox,     \* messages sent by the client, not yet received by handle_client
    ih,       \* history of the incident logic, read only by the properties
    watchdog, \* Watchdog process, see Watchdog
    dprocs,   \* Daemon processes by pid: [st, auth_key]
    orch,     \* Orchestrator process, see OrchestratorProcess
    kills,    \* Daemon processes killed so far
    sh,       \* history of the processes, read only by the properties
    inst,     \* processes started in the Orchestrator role, see NotStarted
    pipes,    \* owner of each named pipe: [main, window], 0 when it is free
    det,      \* a KeystrokeDetector used on its own
    dh,       \* outcome of the latest call on det, read only by the properties
    settings, \* the Orchestrator's DetectionConfig: Config.load(), then the
              \*   values of the settings window
    hnd,      \* the Orchestrator's client handle and the two threads that
              \*   use it, see HandleInit
    sm,       \* a SessionMonitor, its thread and its caller, see SessionMonitor
    au,       \* the Orchestrator's _auto_start_monitor thread, see AutoStart
    pp        \* a legacy ParanoidPolicy and its detector, see ParanoidPolicy

runVars == << daemon, peer, inbox, hist >>
incVars == << session, wts, mon, obox, ih >>
supVars == << watchdog, dprocs, orch, kills, sh >>
lifeVars == << inst, pipes >>
detVars == << det, dh >>
cfgVars == << settings >>
handleVars == << hnd >>
smVars == << sm >>
autoVars == << au >>
paraVars == << pp >>
restVars == << autoVars, paraVars >>
moreVars == << cfgVars, handleVars, smVars, restVars >>
laterVars == << lifeVars, detVars, moreVars >>
vars    == << daemon, peer, inbox, ctl, hist, session, wts, mon, obox, ih,
              watchdog, dprocs, orch, kills, sh, inst, pipes, det, dh,
              settings, hnd, sm, au, pp >>

(***************************************************************************)
(* IPC messages (duckhunt_win/ipc.py).  A payload is << >> (None) or a     *)
(* one-element sequence holding the mapping.                               *)
(***************************************************************************)
MSG_START    == "start"
MSG_STOP     == "stop"
MSG_STATUS   == "status"
MSG_DETECTED == "detected"
MSG_CONFIG   == "config"
MSG_EXIT     == "exit"

IPCMessage(type, payload) == [type |-> type, payload |-> payload]

\* Config payloads the Orchestrator sends (SettingsWindow.save): the
\* defaults, and a sensitive setting with a burst of one key.
ConfigPayloads ==
    { [threshold |-> DefaultThresholdMs, history_size |-> DefaultHistorySize,
       burst_keys |-> DefaultBurstKeys, burst_window_ms |-> DefaultBurstWindowMs,
       allow_auto_type |-> TRUE],
      [threshold |-> DefaultThresholdMs, history_size |-> 2,
       burst_keys |-> 1, burst_window_ms |-> DefaultBurstWindowMs,
       allow_auto_type |-> FALSE] }

\* Config(): the detection settings of a configuration loaded from no file.
Config ==
    [threshold |-> DefaultThresholdMs, history_size |-> DefaultHistorySize,
     burst_keys |-> DefaultBurstKeys, burst_window_ms |-> DefaultBurstWindowMs,
     allow_auto_type |-> TRUE]

\* latest timestamp (ms) a key-down can carry
MaxTime == 1
Times == 0 .. MaxTime

(***************************************************************************)
(* Daemon (duckhunt_win/daemon.py).                                        *)
(* conn: "None", "open" (a Connection object) or "closed" (an object on    *)
(* which close() was called).  A send on an open connection succeeds while *)
(* the server end is open and raises once it is gone.                      *)
(***************************************************************************)
DuckHuntDaemon ==
    [pc |-> "connect", conn |-> "None", running |-> FALSE, hook |-> FALSE,
     detector |-> KeystrokeDetector]

\* send_message: sends only "if self.conn"; an exception of send is re-raised.
send_message(d, peerUp) ==
    [sent   |-> d.conn = "open" /\ peerUp,
     raised |-> d.conn = "closed" \/ (d.conn = "open" /\ ~peerUp)]

\* send_status
send_status(d, peerUp) == send_message(d, peerUp)

\* lock_workstation: send Detected, LockWorkStation(), detector.reset(); an
\* exception of the send leaves the two later statements unexecuted.
lock_workstation(d, peerUp) ==
    LET s == send_message(d, peerUp)
    IN  IF s.raised
        THEN [d |-> d, raised |-> TRUE, locked |-> FALSE, reset |-> FALSE]
        ELSE [d |-> [d EXCEPT !.detector = reset(@)],
              raised |-> FALSE, locked |-> TRUE, reset |-> TRUE]

\* Parameters of KeystrokeDetector.process_keystroke besides self, and the
\* keywords the hook callback passes in its call.
ProcessKeystrokeParams == { "timestamp" }
CallbackKeywords == { "is_injected" }

\* The call self.detector.process_keystroke(is_injected=...): a keyword that
\* is no parameter raises TypeError before the body runs; timestamp then
\* defaults to the current time.
process_keystroke_call(k, keywords, now) ==
    IF keywords \subseteq ProcessKeystrokeParams
    THEN process_keystroke(k, now)
    ELSE [det |-> k, raised |-> TRUE, value |-> FALSE]

\* _low_level_keyboard_proc for a key-down: an exception raised inside the
\* callback does not leave it (the foreign-function layer reports and drops
\* it), so the Daemon's loop goes on.
low_level_keyboard_proc(d, now, peerUp) ==
    IF ~d.running
    THEN [d |-> d, handled |-> FALSE, raised |-> FALSE,
          locked |-> FALSE, reset |-> FALSE]
    ELSE LET c == process_keystroke_call(d.detector, CallbackKeywords, now)
             d1 == [d EXCEPT !.detector = c.det]
             l == lock_workstation(d1, peerUp)
         IN  IF c.raised
             THEN [d |-> d1, handled |-> TRUE, raised |-> TRUE,
                   locked |-> FALSE, reset |-> FALSE]
             ELSE IF c.value
             THEN [d |-> l.d, handled |-> TRUE, raised |-> l.raised,
                   locked |-> l.locked, reset |-> l.reset]
             ELSE [d |-> d1, handled |-> TRUE, raised |-> FALSE,
                   locked |-> FALSE, reset |-> FALSE]

\* Variant: a refused installation is not looked at.
start_monitoring_ignores_refusal(d, peerUp, hookOk) ==
    LET d1 == [d EXCEPT !.hook = d.hook \/ hookOk, !.running = TRUE]
        s  == send_status(d1, peerUp)
    IN  [d |-> d1, raised |-> s.raised, sent |-> s.sent, reported |-> FALSE,
         installed |-> ~d.hook /\ hookOk]

\* Variant: SetWindowsHookExA is called whether or not a hook is held.
start_monitoring_installs_again(d, peerUp, hookOk) ==
    IF ~hookOk /\ ~d.hook
    THEN [d |-> d, raised |-> FALSE, sent |-> FALSE, reported |-> TRUE,
          installed |-> FALSE]
    ELSE LET d1 == [d EXCEPT !.hook = TRUE, !.running = TRUE]
             s  == send_status(d1, peerUp)
         IN  [d |-> d1, raised |-> s.raised, sent |-> s.sent,
              reported |-> FALSE, installed |-> hookOk]

\* start_monitoring: installs the hook unless one is installed; a refused
\* installation is printed to stderr and returns before running is set and
\* before any status is sent.  sent: the status "running" was sent;
\* reported: the failure was printed; installed: SetWindowsHookExA was
\* called and returned a hook.
start_monitoring(d, peerUp, hookOk) ==
    IF ~d.hook /\ ~hookOk
    THEN [d |-> d, raised |-> FALSE, sent |-> FALSE, reported |-> TRUE,
          installed |-> FALSE]
    ELSE LET d1 == [d EXCEPT !.hook = TRUE, !.running = TRUE]
             s  == send_status(d1, peerUp)
         IN  [d |-> d1, raised |-> s.raised, sent |-> s.sent,
              reported |-> FALSE, installed |-> ~d.hook]

\* stop_monitoring
stop_monitoring(d, peerUp) ==
    LET d1 == [d EXCEPT !.running = FALSE, !.hook = FALSE,
                        !.detector = reset(@)]
    IN  [d |-> d1, unhooked |-> d.hook,
         raised |-> send_status(d1, peerUp).raised]


\* msg_ipc.payload.get(key, default) for the five arguments of
\* update_settings.
ConfigArgs(p) ==
    LET get(key, default) == IF key \in DOMAIN p THEN p[key] ELSE default
    IN  [threshold       |-> get("threshold", DefaultThresholdMs),
         history_size    |-> get("history_size", DefaultHistorySize),
         burst_keys      |-> get("burst_keys", DefaultBurstKeys),
         burst_window_ms |-> get("burst_window_ms", DefaultBurstWindowMs),
         allow_auto_type |-> get("allow_auto_type", TRUE)]

\* One received message in run(): the body of the try block.  why names
\* what raised: "send" (a status could not be sent) or "config"
\* (update_settings raised).
dispatch_message(d, m, peerUp, hookOk) ==
    LET none == [d |-> d, raised |-> FALSE, why |-> "none",
                 returned |-> FALSE, unhooked |-> FALSE, closed |-> FALSE,
                 installed |-> FALSE]
    IN  CASE m.type = MSG_START ->
               LET r == start_monitoring(d, peerUp, hookOk)
               IN  [none EXCEPT !.d = r.d, !.raised = r.raised,
                                !.why = IF r.raised THEN "send" ELSE "none",
                                !.installed = r.installed]
          [] m.type = MSG_STOP ->
               LET r == stop_monitoring(d, peerUp)
               IN  [none EXCEPT !.d = r.d, !.raised = r.raised,
                                !.why = IF r.raised THEN "send" ELSE "none",
                                !.unhooked = r.unhooked]
          [] m.type = MSG_CONFIG ->
               IF m.payload = << >> THEN none
               ELSE LET u == update_settings(d.detector,
                                             ConfigArgs(m.payload[1]))
                    IN  [none EXCEPT !.d = [d EXCEPT !.detector = u.det],
                                     !.raised = u.raised,
                                     !.why = IF u.raised THEN "config" ELSE "none"]
          [] m.type = MSG_EXIT ->
               LET r == stop_monitoring(d, peerUp)
               IN  IF r.raised
                   THEN [none EXCEPT !.d = r.d, !.raised = TRUE, !.why = "send",
                                     !.unhooked = r.unhooked]
                   ELSE [none EXCEPT
                           !.d = [r.d EXCEPT !.pc = "exited",
                                    !.conn = IF @ = "None" THEN @ ELSE "closed"],
                           !.returned = TRUE,
                           !.unhooked = r.unhooked,
                           !.closed = r.d.conn # "None"]
          [] OTHER -> none

\* Variant: the except handler clears the connection and leaves the loop
\* without stop_monitoring().
connection_lost_keeps_monitoring(d) ==
    [d |-> [d EXCEPT !.conn = "None", !.pc = "connect"], unhooked |-> FALSE]

\* The except handler of run(): self.conn = None, stop_monitoring(), break
\* (back to the connection loop).
connection_lost(d) ==
    LET r == stop_monitoring([d EXCEPT !.conn = "None"], FALSE)
    IN  [d |-> [r.d EXCEPT !.pc = "connect"], unhooked |-> r.unhooked]

\* Variant: connect() resumes monitoring by itself once connected.
connect_resumes_monitoring(d, peerUp) ==
    [d |-> [d EXCEPT !.running = TRUE, !.hook = TRUE],
     ok |-> ~send_status(d, peerUp).raised]

\* connect(): Client(...) then send_status("connected"); any exception
\* makes it return False, with self.conn already assigned when the
\* exception came from the send.
connect(d, peerUp) ==
    [d |-> d, ok |-> ~send_status(d, peerUp).raised]

\* "while not self.conn: if self.connect(): break; sleep": the loop is left
\* when connect() returned True or self.conn is set.
connection_loop_left(d, ok) == ok \/ d.conn # "None"

(***************************************************************************)
(* Orchestrator, command side (duckhunt_win/controller.py).                *)
(* client_conn: "None", "live" (the Daemon's end is open) or "stale" (the  *)
(* Daemon's end is closed, not yet noticed).  gui_queue holds the queued   *)
(* closures by the notification each shows; running_state is the tray's.   *)
(***************************************************************************)
DuckHuntController ==
    [pc |-> "run", client_conn |-> "None", err |-> FALSE,
     daemon_status |-> "stopped",
     is_locked |-> FALSE, incident_pending |-> FALSE,
     gui_queue |-> << >>, running_state |-> FALSE]

(***************************************************************************)
(* Legacy package (duckhunt/policies.py, duckhunt/detector.py): a          *)
(* ParanoidPolicy and the locked branch of the detector that owns it.  A   *)
(* key is its ascii code, 0 for a key without one; the password is the     *)
(* sequence of its characters' codes.  typed holds the codes handed to     *)
(* on_locked_keystroke since the lock, allowed the latest result of        *)
(* process_keystroke; both are read only by the properties.                *)
(***************************************************************************)
\* longest password of the model
MaxPassword == 2

\* The ascii codes of the model: two characters and 0.
Codes == 0..2

\* config.password: a string of the two characters, "quack" by default.
Passwords == UNION { [1..n -> Codes \ {0}] : n \in 1..MaxPassword }

ParanoidPolicy(password, allow_auto_type) ==
    [password |-> password, allow_auto_type |-> allow_auto_type,
     locked |-> FALSE, password_index |-> 0, intrusion_active |-> FALSE,
     typed |-> << >>, op |-> "none", allowed |-> TRUE, raised |-> FALSE]

\* on_intrusion: the keyboard is locked and the match starts anew.
on_intrusion(p) ==
    [p EXCEPT !.locked = TRUE, !.password_index = 0, !.typed = << >>]

\* The latest MaxPassword entries of a sequence.
Latest(q) ==
    IF Len(q) <= MaxPassword THEN q
    ELSE SubSeq(q, Len(q) - MaxPassword + 1, Len(q))

\* on_locked_keystroke: (allow, unlocked) and the policy after the call.
\* password[self._password_index] of an empty password raises IndexError.
on_locked_keystroke(p, ascii_code) ==
    IF ~p.locked THEN [p |-> p, allow |-> TRUE, unlocked |-> TRUE,
                       raised |-> FALSE]
    ELSE
    LET q == [p EXCEPT !.typed = Latest(Append(@, ascii_code))]
    IN  IF ascii_code > 0 /\ p.password = << >>
        THEN [p |-> q, allow |-> FALSE, unlocked |-> FALSE, raised |-> TRUE]
        ELSE IF ascii_code > 0
                /\ ascii_code = p.password[p.password_index + 1]
        THEN IF p.password_index + 1 >= Len(p.password)
             THEN [p |-> [q EXCEPT !.locked = FALSE, !.password_index = 0],
                   allow |-> FALSE, unlocked |-> TRUE, raised |-> FALSE]
             ELSE [p |-> [q EXCEPT !.password_index = @ + 1],
                   allow |-> FALSE, unlocked |-> FALSE, raised |-> FALSE]
        ELSE [p |-> [q EXCEPT !.password_index = 0],
              allow |-> FALSE, unlocked |-> FALSE, raised |-> FALSE]

\* process_keystroke of the legacy detector with a ParanoidPolicy: the
\* exemption of injected keys, the locked branch, and the timing checks,
\* whose outcome is intrusion (blacklisted window or average speed below
\* the threshold: _handle_intrusion) or not.
legacy_process_keystroke(p, ascii_code, is_injected, intrusion) ==
    IF is_injected /\ p.allow_auto_type
    THEN [p EXCEPT !.op = "key", !.allowed = TRUE, !.raised = FALSE]
    ELSE IF p.intrusion_active /\ p.locked
    THEN LET r == on_locked_keystroke(p, ascii_code)
         IN  [r.p EXCEPT !.op = "key", !.allowed = r.allow,
                         !.raised = r.raised,
                         !.intrusion_active = IF r.unlocked /\ ~r.raised
                                              THEN FALSE ELSE @]
    ELSE IF intrusion
    THEN [on_intrusion(p) EXCEPT !.op = "key", !.allowed = FALSE,
                                 !.raised = FALSE,
                                 !.intrusion_active = TRUE]
    ELSE [p EXCEPT !.op = "key", !.allowed = TRUE, !.raised = FALSE,
                   !.intrusion_active = FALSE]

\* The thread of _auto_start_monitor: pc is "poll" inside the for loop and
\* "done" after it, i the polls that found no client; the other fields are
\* read only by the properties.
AutoStart ==
    [pc |-> "poll", i |-> 0,
     sent |-> 0,        \* send_command(MSG_START) calls of the loop
     late |-> FALSE,    \* the current connection was accepted after the
                        \*   loop had ended
     user |-> FALSE]    \* on_start_request has sent a Start on the
                        \*   current connection

\* send_command: sends only "if self.client_conn"; an exception of send is
\* absorbed and clears the handle.
send_command(c, m) ==
    IF c.client_conn = "live" THEN [c |-> c, delivered |-> TRUE]
    ELSE IF c.client_conn = "stale"
    THEN [c |-> [c EXCEPT !.client_conn = "None"], delivered |-> FALSE]
    ELSE [c |-> c, delivered |-> FALSE]

\* for i in range(50) of _auto_start_monitor
AutoStartPolls == 50

\* Variant: the loop goes on after its send_command.
auto_start_poll_no_break(c, i) ==
    LET r == send_command(c, IPCMessage(MSG_START, << >>))
    IN  IF c.client_conn # "None"
        THEN [c |-> r.c, delivered |-> r.delivered, called |-> TRUE,
              i |-> i + 1, done |-> i + 1 >= AutoStartPolls]
        ELSE [c |-> c, delivered |-> FALSE, called |-> FALSE,
              i |-> i + 1, done |-> i + 1 >= AutoStartPolls]

\* _auto_start_monitor, one iteration of the loop with i polls behind it:
\* a client handle makes it call send_command(MSG_START) and break;
\* without one it sleeps, and the loop ends after AutoStartPolls polls.
auto_start_poll(c, i) ==
    LET r == send_command(c, IPCMessage(MSG_START, << >>))
    IN  IF c.client_conn # "None"
        THEN [c |-> r.c, delivered |-> r.delivered, called |-> TRUE,
              i |-> i, done |-> TRUE]
        ELSE [c |-> c, delivered |-> FALSE, called |-> FALSE,
              i |-> i + 1, done |-> i + 1 >= AutoStartPolls]

(***************************************************************************)
(* Orchestrator, the client handle and its threads (controller.py).  A     *)
(* connection accepted on the main channel is a number of ConnIds; 0       *)
(* stands for None.  conns gives each connection's state: "none" (not made *)
(* yet), "open" (the client's end is open) or "broken" (the client's end   *)
(* is closed or its process gone).  acc is the accept-loop thread: "accept"*)
(* (blocked in listener.accept()), "assign" (accept() has returned conn),  *)
(* "serve" (in handle_client(conn)).  snd gives, for each thread that     *)
(* calls send_command, where it is: "idle", "tested" (the if found a       *)
(* handle), "failed" (send raised); out is how its latest send_command     *)
(* ended.                                                                  *)
(***************************************************************************)
\* connections accepted in a run
MaxConns == 2
ConnIds == 1 .. MaxConns

\* The threads that call send_command: the tray's (on_start_request,
\* on_stop_request) and the main loop (SettingsWindow.save, _shutdown).
Senders == { "tray", "main" }

HandleInit ==
    [client_conn |-> 0,
     conns |-> [i \in ConnIds |-> "none"],
     acc |-> [pc |-> "accept", conn |-> 0],
     snd |-> [t \in Senders |-> [pc |-> "idle", out |-> "none"]]]

\* accept_loop: conn = self.listener.accept()
accept_returns(h, i) ==
    [h EXCEPT !.conns[i] = "open", !.acc = [pc |-> "assign", conn |-> i]]

\* accept_loop: self.client_conn = conn; self.handle_client(conn)
accept_assign(h) ==
    [h EXCEPT !.client_conn = h.acc.conn, !.acc.pc = "serve"]

\* handle_client: recv() raises, the loop is left, the handle is cleared
\* when it still is this connection; accept_loop calls accept() again.
handle_client_end(h) ==
    [h EXCEPT !.client_conn = IF @ = h.acc.conn THEN 0 ELSE @,
              !.acc = [pc |-> "accept", conn |-> 0]]

\* send_command: "if self.client_conn:"
send_command_test(h, t) ==
    IF h.client_conn = 0
    THEN [h EXCEPT !.snd[t] = [pc |-> "idle", out |-> "dropped"]]
    ELSE [h EXCEPT !.snd[t] = [pc |-> "tested", out |-> "none"]]

\* send_command: self.client_conn.send(msg) reads the handle again; it
\* raises AttributeError on None and OSError on a broken connection.
send_command_send(h, t) ==
    IF h.client_conn # 0 /\ h.conns[h.client_conn] = "open"
    THEN [h EXCEPT !.snd[t] = [pc |-> "idle", out |-> "sent"]]
    ELSE [h EXCEPT !.snd[t] = [pc |-> "failed", out |-> "none"]]

\* Variant: the exception leaves send_command.
send_command_reraises(h, t) ==
    [h EXCEPT !.snd[t] = [pc |-> "idle", out |-> "escaped"]]

\* send_command: "except Exception: self.client_conn = None"
send_command_except(h, t) ==
    [h EXCEPT !.client_conn = 0,
              !.snd[t] = [pc |-> "idle", out |-> "absorbed"]]

(***************************************************************************)
(* Session monitor (duckhunt_win/core/session_monitor.py).  pc is where    *)
(* the monitor's thread is in _run: "none" (no thread), "create" (before   *)
(* CreateWindowExW), "test" (at "while self._running"), "wait" (in         *)
(* GetMessageW), "dispatch" (GetMessageW has returned msg), "done" (_run   *)
(* has returned).  queue holds the messages posted to the window, quit is  *)
(* the thread's quit flag (PostQuitMessage).  stop is where a caller of    *)
(* stop() is: "idle", "flag" (_running is assigned) or "done".             *)
(***************************************************************************)
\* calls of start()
MaxStarts == 2

SessionMonitor ==
    [thread |-> FALSE, running |-> FALSE, hwnd |-> FALSE,
     pc |-> "none", queue |-> << >>, msg |-> "none", quit |-> FALSE,
     stop |-> "idle",
     starts |-> 0,          \* calls of start()
     threads |-> 0,         \* threads created
     stopAt |-> "none",     \* where the thread was when stop() was called
     calls |-> 0,           \* callbacks invoked
     late |-> FALSE]        \* a callback was invoked after stop() returned

\* start
monitor_start(m) ==
    IF m.thread THEN [m EXCEPT !.starts = @ + 1]
    ELSE [m EXCEPT !.starts = @ + 1, !.running = TRUE, !.thread = TRUE,
                   !.threads = @ + 1, !.pc = "create"]

\* stop, first statement: self._running = False
monitor_stop_flag(m) ==
    [m EXCEPT !.running = FALSE, !.stop = "flag", !.stopAt = m.pc]

\* Variant: stop() posts nothing.
monitor_stop_posts_nothing(m) == [m EXCEPT !.stop = "done"]

\* stop, second statement: WM_CLOSE is posted when hwnd is set; a window
\* that is destroyed takes no message.
monitor_stop_post(m) ==
    [m EXCEPT !.stop = "done",
              !.queue = IF m.hwnd /\ m.pc # "done"
                        THEN Append(@, "close") ELSE @]

\* _run up to the message pump: the window is created, or is not and _run
\* returns.
run_create(m, ok) ==
    IF ok THEN [m EXCEPT !.hwnd = TRUE, !.pc = "test"]
    ELSE [m EXCEPT !.pc = "done"]

\* _run: "while self._running"; after the loop the window is destroyed.
run_test(m) ==
    IF m.running THEN [m EXCEPT !.pc = "wait"]
    ELSE [m EXCEPT !.pc = "done", !.queue = << >>]

\* _run: GetMessageW returns the next posted message, or 0 (WM_QUIT) when
\* none is queued and the quit flag is set.
run_get(m) ==
    IF m.queue # << >>
    THEN [m EXCEPT !.msg = Head(m.queue), !.queue = Tail(@),
                   !.pc = "dispatch"]
    ELSE [m EXCEPT !.pc = "done", !.quit = FALSE]

\* wnd_proc, called by DispatchMessageW: on_lock(), on_unlock(), or
\* PostQuitMessage for WM_CLOSE.
wnd_proc(m) ==
    IF m.msg = "close"
    THEN [m EXCEPT !.quit = TRUE, !.msg = "none", !.pc = "test"]
    ELSE [m EXCEPT !.calls = Sat(@ + 1), !.late = @ \/ m.stop = "done",
                   !.msg = "none", !.pc = "test"]

(***************************************************************************)
(* Orchestrator, event logic (duckhunt_win/controller.py).  A queued       *)
(* closure is named by the notification it shows: "incident" (Attack       *)
(* Detected!), "enabled" (Protection Enabled), "disabled" (Protection      *)
(* Disabled).                                                              *)
(***************************************************************************)
\* _handle_detected
handle_detected(c) == [c EXCEPT !.incident_pending = TRUE]

\* msg.payload.get("status", "unknown") if msg.payload else "unknown"
StatusOf(m) ==
    IF m.payload # << >> /\ "status" \in DOMAIN m.payload[1]
    THEN m.payload[1].status ELSE "unknown"

\* Variant: every running or stopped status queues a notification.
handle_status_always_notifies(c, m) ==
    LET new_status == StatusOf(m)
        note == IF new_status = "running" THEN << "enabled" >>
                ELSE IF new_status = "stopped" THEN << "disabled" >>
                ELSE << >>
    IN  [c EXCEPT !.daemon_status = new_status,
                  !.gui_queue = @ \o note,
                  !.running_state = (new_status = "running")]

\* _handle_status: records the status, queues a notification when it changed
\* to running or to stopped, and sets the tray's running state.
handle_status(c, m) ==
    LET new_status == StatusOf(m)
        note == IF c.daemon_status = new_status THEN << >>
                ELSE IF new_status = "running" THEN << "enabled" >>
                ELSE IF new_status = "stopped" THEN << "disabled" >>
                ELSE << >>
    IN  [c EXCEPT !.daemon_status = new_status,
                  !.gui_queue = @ \o note,
                  !.running_state = (new_status = "running")]

\* on_session_lock
on_session_lock(c) == [c EXCEPT !.is_locked = TRUE]

\* Variant: the unlock callback leaves is_locked as it is.
unlock_stays_locked(c) == c

\* on_session_unlock, first statement: self.is_locked = False
unlock_set_unlocked(c) == [c EXCEPT !.is_locked = FALSE]

\* on_session_unlock: the test "if self.incident_pending"
unlock_sees_incident(c) == c.incident_pending

\* on_session_unlock: gui_queue.put(closure showing "Attack Detected!")
unlock_put(c) == [c EXCEPT !.gui_queue = Append(@, "incident")]

\* Variant: the unlock callback leaves incident_pending set.
unlock_keeps_pending(c) == c

\* on_session_unlock, last statement: self.incident_pending = False
unlock_clear(c) == [c EXCEPT !.incident_pending = FALSE]

\* process_gui_queue: every queued closure is taken and called, in order.
process_gui_queue(c) ==
    [c |-> [c EXCEPT !.gui_queue = << >>], shown |-> c.gui_queue]

(***************************************************************************)
(* Processes (duckhunt_win/watchdog.py, controller.py, daemon.py).  A key  *)
(* is a byte string (a sequence of values 0 .. 255); its hexadecimal text  *)
(* is a sequence of digits 0 .. 15.  A pid is a number of Pids; 0 stands   *)
(* for None.                                                               *)
(***************************************************************************)
\* most Daemon processes the environment kills in a run
MaxKills == 1
\* most Watchdog processes launched in a run
MaxWatchdogs == 2
\* pids a Daemon process can get
Pids == 1 .. (MaxWatchdogs + 3)

\* bytes.hex()
Hex(b) ==
    [i \in 1 .. 2 * Len(b) |->
        IF i % 2 = 1 THEN b[(i + 1) \div 2] \div 16 ELSE b[i \div 2] % 16]

\* bytes.fromhex()
FromHex(h) ==
    [i \in 1 .. (Len(h) \div 2) |-> h[2 * i - 1] * 16 + h[2 * i]]

\* secrets.token_bytes: the keys an Orchestrator can draw
AuthSecrets == { << 10, 171 >>, << 171, 10 >> }

\* The Orchestrator's process seen from outside, as __init__ leaves it: pc
\* ("start": before start(); "run": in the main loop), auth_key, the accept
\* loop of the main channel ("none": no listener yet; "accept": blocked in
\* listener.accept(); "handle": in handle_client; "ended": the thread has
\* left the loop), client_conn (pid of the client), pending (pid of a client
\* that has opened the pipe and waits for the handshake), watchdog_pid,
\* watchdog_process (it holds the Popen object of a Watchdog it launched),
\* monitors (the threads started by monitor_watchdog that are still
\* running), daemon_process (pid of a Daemon it launched itself) and
\* watchdog_enabled (config.watchdog_enabled).
OrchestratorProcess(auth_key) ==
    [alive |-> TRUE, pc |-> "start", auth_key |-> auth_key, loop |-> "none",
     client_conn |-> 0, pending |-> 0,
     watchdog_pid |-> 0, watchdog_process |-> FALSE, monitors |-> 0,
     daemon_process |-> 0, watchdog_enabled |-> TRUE]

\* DuckHuntController.__init__ with --auth-key and --watchdog-pid:
\* bytes.fromhex of the text, and the pid is kept.
RelaunchedOrchestrator(auth_key_hex, watchdog_pid) ==
    [OrchestratorProcess(FromHex(auth_key_hex))
        EXCEPT !.watchdog_pid = watchdog_pid]

\* Watchdog.__init__: --auth-key carries the key's hex text; run() starts by
\* launching a Daemon.  pid is the process's own pid, and raised tells that
\* run() was left by an exception.
Watchdog(auth_key_hex) ==
    [alive |-> TRUE, pc |-> "start", auth_key |-> auth_key_hex,
     daemon_process |-> 0, pid |-> 0, raised |-> FALSE]

\* monitor_watchdog: starts one more monitoring thread.
monitor_watchdog(o) == [o EXCEPT !.monitors = @ + 1]

\* is_pid_running(self.watchdog_pid)
is_pid_running(w, pid) == pid > 0 /\ w.pid = pid /\ w.alive

\* DuckHuntController.launch_watchdog: the new process gets the hex text of
\* auth_key; the Popen object and its pid are kept and monitor_watchdog is
\* called.  ok is FALSE when Popen raises.
launch_watchdog(o, w, pid, ok) ==
    IF ok
    THEN [o |-> monitor_watchdog([o EXCEPT !.watchdog_process = TRUE,
                                           !.watchdog_pid = pid]),
          w |-> [Watchdog(Hex(o.auth_key)) EXCEPT !.pid = pid],
          raised |-> FALSE]
    ELSE [o |-> o, w |-> w, raised |-> TRUE]

\* update_watchdog_state(enabled): enabling launches a Watchdog when no
\* watchdog_pid is held; disabling clears watchdog_pid and terminates the
\* Watchdog this process launched (one it did not launch is left alone).
update_watchdog_state(o, w, enabled, pid, ok) ==
    IF enabled
    THEN IF o.watchdog_pid = 0 THEN launch_watchdog(o, w, pid, ok)
         ELSE [o |-> o, w |-> w, raised |-> FALSE]
    ELSE IF o.watchdog_pid = 0 THEN [o |-> o, w |-> w, raised |-> FALSE]
    ELSE IF o.watchdog_process
    THEN [o |-> [o EXCEPT !.watchdog_pid = 0, !.watchdog_process = FALSE],
          w |-> IF w.pid = o.watchdog_pid THEN [w EXCEPT !.alive = FALSE]
                ELSE w,
          raised |-> FALSE]
    ELSE [o |-> [o EXCEPT !.watchdog_pid = 0], w |-> w, raised |-> FALSE]

\* _shutdown, the two send_command(MSG_EXIT): a connected Daemon handles
\* the Exit and its process ends; without a connected client nothing is
\* sent.
shutdown_send_exit(o, procs) ==
    IF o.client_conn # 0 /\ procs[o.client_conn].st = "connected"
    THEN [procs EXCEPT ![o.client_conn].st = "dead"]
    ELSE procs

\* _shutdown: the Watchdog is terminated through the Popen object, or with
\* taskkill when only its pid is known.
shutdown_kill_watchdog(o, w) ==
    IF (o.watchdog_process \/ o.watchdog_pid # 0) /\ w.pid = o.watchdog_pid
    THEN [w EXCEPT !.alive = FALSE]
    ELSE w

\* _shutdown: a Daemon launched by this process is terminated.
shutdown_kill_daemon(o, procs) ==
    IF o.daemon_process # 0 /\ procs[o.daemon_process].st # "dead"
    THEN [procs EXCEPT ![o.daemon_process].st = "dead"]
    ELSE procs

NoProcess == [st |-> "none", auth_key |-> << >>]

\* No Watchdog has been launched.
NoWatchdog == [Watchdog(<< >>) EXCEPT !.alive = FALSE]

\* A Daemon process started with DUCKHUNT_AUTH_KEY = env_key: __init__ reads
\* the key with bytes.fromhex and run() enters the connection loop.
DaemonProcess(env_key) == [st |-> "connect", auth_key |-> FromHex(env_key)]

\* Watchdog.launch_daemon: the child's environment gets self.auth_key and the
\* Popen object is kept; ok is FALSE when Popen raises.
launch_daemon(w, procs, pid, ok) ==
    IF ok
    THEN [w |-> [w EXCEPT !.daemon_process = pid],
          procs |-> [procs EXCEPT ![pid] = DaemonProcess(w.auth_key)],
          raised |-> FALSE]
    ELSE [w |-> w, procs |-> procs, raised |-> TRUE]

\* DuckHuntController.launch_daemon: nothing when the Daemon it launched still
\* runs; otherwise a Daemon is started with the environment of this process,
\* in which __init__ has put the hex text of auth_key.
controller_launch_daemon(o, procs, pid, ok) ==
    IF o.daemon_process # 0 /\ procs[o.daemon_process].st # "dead"
    THEN [o |-> o, procs |-> procs, raised |-> FALSE]
    ELSE IF ok
    THEN [o |-> [o EXCEPT !.daemon_process = pid],
          procs |-> [procs EXCEPT ![pid] = DaemonProcess(Hex(o.auth_key))],
          raised |-> FALSE]
    ELSE [o |-> o, procs |-> procs, raised |-> TRUE]

\* start_ipc_server: the listener is bound with auth_key and the accept loop
\* starts.
start_ipc_server(o) == [o EXCEPT !.loop = "accept"]

\* Variant: start() launches a Watchdog whenever the watchdog is enabled,
\* supervised or not.
start_launches_when_supervised(o, w, procs, wpid, dpid, ok) ==
    LET o1 == start_ipc_server(o)
        lw == launch_watchdog(o1, w, wpid, ok)
        ld == controller_launch_daemon(o1, procs, dpid, ok)
        r  == IF o1.watchdog_enabled
              THEN [o |-> lw.o, w |-> lw.w, procs |-> procs,
                    raised |-> lw.raised]
              ELSE [o |-> ld.o, w |-> w, procs |-> ld.procs,
                    raised |-> ld.raised]
    IN  IF r.raised
        THEN [r EXCEPT !.o = [o1 EXCEPT !.alive = FALSE, !.loop = "ended"]]
        ELSE [r EXCEPT !.o.pc = "run"]

\* DuckHuntController.start, up to the main loop: the channels are bound,
\* then a Watchdog is launched (not supervised, watchdog enabled), or the
\* Watchdog that launched this process is monitored (supervised), or a
\* Daemon is launched directly (not supervised, watchdog disabled).  An
\* exception of Popen leaves start() and main() returns 1.
start(o, w, procs, wpid, dpid, ok) ==
    LET o1 == start_ipc_server(o)
        lw == launch_watchdog(o1, w, wpid, ok)
        ld == controller_launch_daemon(o1, procs, dpid, ok)
        r  == IF o1.watchdog_pid = 0 /\ o1.watchdog_enabled
              THEN [o |-> lw.o, w |-> lw.w, procs |-> procs,
                    raised |-> lw.raised]
              ELSE IF o1.watchdog_pid # 0
              THEN [o |-> monitor_watchdog(o1), w |-> w, procs |-> procs,
                    raised |-> FALSE]
              ELSE IF ~o1.watchdog_enabled
              THEN [o |-> ld.o, w |-> w, procs |-> ld.procs,
                    raised |-> ld.raised]
              ELSE [o |-> o1, w |-> w, procs |-> procs, raised |-> FALSE]
    IN  IF r.raised
        THEN [r EXCEPT !.o = [o1 EXCEPT !.alive = FALSE, !.loop = "ended"]]
        ELSE [r EXCEPT !.o.pc = "run"]

\* Watchdog.launch_controller: --auth-key carries self.auth_key and
\* --watchdog-pid the Watchdog's own pid.
launch_controller(w, o, ok) ==
    IF ok THEN [o |-> RelaunchedOrchestrator(w.auth_key, w.pid),
                raised |-> FALSE]
    ELSE [o |-> o, raised |-> TRUE]

\* daemon_process.poll() is not None, or no daemon_process
DaemonMissing(w, procs) ==
    w.daemon_process = 0 \/ procs[w.daemon_process].st = "dead"

\* Variant: accept() does not compare the keys.
accept_any_key(o, procs) ==
    LET p == o.pending
    IN  IF procs[p].st # "handshake"
        THEN [o |-> [o EXCEPT !.loop = "ended", !.pending = 0],
              procs |-> procs]
        ELSE [o |-> [o EXCEPT !.loop = "handle", !.pending = 0,
                              !.client_conn = p],
              procs |-> [procs EXCEPT ![p].st = "connected"]]

\* Listener.accept() for the pending client: the handshake fails with an
\* exception when the client is gone or its key differs; otherwise the
\* connection is returned and accept_loop stores it in client_conn and
\* enters handle_client.  An exception makes accept_loop leave its loop.
accept(o, procs) ==
    LET p == o.pending
    IN  IF procs[p].st # "handshake"
        THEN [o |-> [o EXCEPT !.loop = "ended", !.pending = 0],
              procs |-> procs]
        ELSE IF procs[p].auth_key # o.auth_key
        THEN [o |-> [o EXCEPT !.loop = "ended", !.pending = 0],
              procs |-> [procs EXCEPT ![p].st = "connect"]]
        ELSE [o |-> [o EXCEPT !.loop = "handle", !.pending = 0,
                              !.client_conn = p],
              procs |-> [procs EXCEPT ![p].st = "connected"]]

(***************************************************************************)
(* A process started in the Orchestrator role (__main__.py, controller.py) *)
(* from main() to its end: the single-instance check, the binding of the   *)
(* two channels, the launch and _shutdown.                                 *)
(***************************************************************************)
\* most processes started in the Orchestrator role in a run
MaxInsts == 2
Insts == 1 .. MaxInsts

\* A process that has not been started: pc ("off", "check", "bind_main",
\* "bind_window", "launch", "run", "shutdown": _shutdown is queued,
\* "exited"), code (the exit code,
\* -1 while it runs), checked (outcome of the single-instance check),
\* supervised (--watchdog-pid was given), enabled (config.watchdog_enabled),
\* listener and window_listener (the Listener objects it holds),
\* watchdog_process, watchdog_pid and daemon_process (set or not), sd (number
\* of steps of _shutdown done) and log (what _shutdown has done, in order).
NotStarted ==
    [pc |-> "off", code |-> -1, checked |-> "no", supervised |-> FALSE,
     enabled |-> TRUE, listener |-> FALSE, window_listener |-> FALSE,
     watchdog_process |-> FALSE, watchdog_pid |-> FALSE,
     daemon_process |-> FALSE, sd |-> 0, log |-> << >>]

\* Variant: main() goes on to construct the controller whatever the check
\* found.
single_instance_check_ignored(c, connected) ==
    [c EXCEPT !.checked = IF connected THEN "connected" ELSE "failed",
              !.pc = "bind_main"]

\* main(), the single-instance check: Client() on the rendezvous channel; on
\* success the warning is shown and main() returns 0, on OSError or
\* ValueError main() goes on to construct the controller.
single_instance_check(c, connected) ==
    IF connected
    THEN [c EXCEPT !.checked = "connected", !.pc = "exited", !.code = 0]
    ELSE [c EXCEPT !.checked = "failed", !.pc = "bind_main"]

\* start_ipc_server as seen at the pipe: Listener() raises when the name is
\* taken, and the exception is swallowed.
bind_main(c, free) ==
    [c EXCEPT !.listener = free, !.pc = "bind_window"]

\* start_window_ipc_server: the same for the rendezvous channel.
start_window_ipc_server(c, free) ==
    [c EXCEPT !.window_listener = free, !.pc = "launch"]

\* start(), step 4: launch_watchdog, monitor_watchdog or launch_daemon; an
\* exception of Popen leaves start() and main() returns 1.
start_launch(c, ok) ==
    IF ~c.supervised /\ c.enabled
    THEN IF ok THEN [c EXCEPT !.watchdog_process = TRUE, !.watchdog_pid = TRUE,
                              !.pc = "run"]
         ELSE [c EXCEPT !.pc = "exited", !.code = 1]
    ELSE IF c.supervised
    THEN [c EXCEPT !.pc = "run"]
    ELSE IF ok THEN [c EXCEPT !.daemon_process = TRUE, !.pc = "run"]
         ELSE [c EXCEPT !.pc = "exited", !.code = 1]

\* Variant: _shutdown closes the channels before it sends Exit.
ShutdownStepsClosingFirst ==
    << "listener", "window_listener", "send_exit", "send_exit", "watchdog",
       "daemon", "session_monitor", "tray", "quit" >>

\* The statements of _shutdown, in the order of the code.
ShutdownSteps ==
    << "send_exit", "send_exit", "watchdog", "daemon", "session_monitor",
       "tray", "listener", "window_listener", "quit" >>

\* One statement of _shutdown: what it does is appended to log; the
\* conditional statements do nothing when their condition is false.
\* root.quit() ends the main loop, start() returns and main() returns 0.
shutdown_step(c) ==
    LET step == ShutdownSteps[c.sd + 1]
        c1 == [c EXCEPT !.sd = @ + 1]
        did(x) == [c1 EXCEPT !.log = Append(@, x)]
    IN  CASE step = "send_exit" -> did("send_exit")
          [] step = "watchdog" ->
               IF c.watchdog_process THEN did("terminate_watchdog")
               ELSE IF c.watchdog_pid THEN did("taskkill_watchdog")
               ELSE c1
          [] step = "daemon" ->
               IF c.daemon_process THEN did("terminate_daemon") ELSE c1
          [] step = "session_monitor" -> did("stop_session_monitor")
          [] step = "tray" -> did("stop_tray")
          [] step = "listener" ->
               IF c.listener
               THEN [did("close_listener") EXCEPT !.listener = FALSE]
               ELSE c1
          [] step = "window_listener" ->
               IF c.window_listener
               THEN [did("close_window_listener")
                        EXCEPT !.window_listener = FALSE]
               ELSE c1
          [] OTHER ->
               [did("quit") EXCEPT !.pc = "exited", !.code = 0]

\* _shutdown: its statements one after the other.
RECURSIVE shutdown(_)
shutdown(c) == IF c.pc = "exited" THEN c ELSE shutdown(shutdown_step(c))

\* The pipes after process i has changed to c: a pipe belongs to i exactly
\* while i holds its Listener and runs.
Owned(p, i, c) ==
    [main |-> IF c.listener /\ c.pc # "exited" THEN i
              ELSE IF p.main = i THEN 0 ELSE p.main,
     window |-> IF c.window_listener /\ c.pc # "exited" THEN i
                ELSE IF p.window = i THEN 0 ELSE p.window]

(***************************************************************************)
(* History kept for the properties.                                        *)
(***************************************************************************)
NoKey == [handled |-> FALSE, suspicious |-> FALSE, raised |-> FALSE,
          locked |-> FALSE, reset |-> FALSE]

NoStart ==
    [handled |-> FALSE,     \* a Start was handled
     refused |-> FALSE,     \* the hook's installation was tried and refused
     sent |-> FALSE,        \* start_monitoring sent the status "running"
     reported |-> FALSE,    \* start_monitoring printed the failure
     again |-> FALSE]       \* the Start handled before it was refused

HistInit ==
    [lossVia   |-> "none",  \* how the current channel loss was first observed
     monAtDrop |-> FALSE,   \* the Daemon was Monitoring when it observed it
     reconn    |-> FALSE,   \* the Daemon has reconnected after a loss
     started   |-> FALSE,   \* a Start was handled on the current connection
     exitSeen  |-> FALSE,   \* the Daemon has received an Exit
     exitsSent |-> 0,       \* send_command(MSG_EXIT) calls of this shutdown
     sdMon     |-> FALSE,   \* the Daemon was Monitoring at the first of them
     sdHandled |-> FALSE,   \* the Daemon received an Exit of this shutdown
     unhooks   |-> 0,       \* observer uninstalls since the first Exit send
     closes    |-> 0,       \* conn.close() calls since the first Exit send
     retried   |-> FALSE,   \* a connect attempt has failed since the loss
     cfgMon    |-> FALSE,   \* a Config with a payload was handled while
                            \*   Monitoring on the current connection
     hooks     |-> 0,       \* keyboard hooks the Daemon's process has
                            \*   installed and not uninstalled
     last      |-> "none",  \* the latest message handled: "again" (a Start
                            \*   while Monitoring), "idle" (a Stop while
                            \*   Idle) or "none" (any other)
     kd        |-> NoKey,   \* outcome of the latest key-down callback
     st        |-> NoStart] \* the latest Start handled on the current
                            \*   connection (kept under SpecCfg)

NoCallback ==
    [done |-> FALSE,        \* the callback has returned
     seen |-> FALSE,        \* value of incident_pending at its test
     fromLocked |-> FALSE,  \* a Detected was handled while is_locked before it
     quiet |-> FALSE,       \* no Detected handled since the callback before it
     gap |-> FALSE,         \* a Detected was handled since the test of the one
                            \*   before
     enq |-> 0,             \* incident notifications it has queued
     flagAfter |-> FALSE]   \* incident_pending when it returned

NoDetected == [handled |-> FALSE, locked |-> FALSE, flagAfter |-> FALSE,
               emitted |-> FALSE]

IhInit ==
    [pendLocked |-> FALSE,  \* a Detected was handled while is_locked since the
                            \*   latest test of incident_pending
     gap |-> FALSE,         \* a Detected was handled since that test
     sinceReturn |-> FALSE, \* one was handled since an unlock callback returned
     returned |-> FALSE,    \* an unlock callback has returned
     same |-> FALSE,        \* the latest Status handled carried the status
                            \*   recorded before it
     owed |-> FALSE,        \* a Detected was handled and no incident
                            \*   notification has been queued since
     cb |-> NoCallback,     \* the unlock callback in progress, or the latest
     det |-> NoDetected]    \* the latest _handle_detected

NoCall ==
    [op |-> "none",         \* "key", "callback", "update" or "reset"
     injected |-> FALSE,    \* the callback's is_injected
     raised |-> FALSE,      \* the call raised
     value |-> FALSE,       \* what process_keystroke returned
     speed |-> FALSE,       \* what _check_speed finds for the window
     burst |-> FALSE,       \* what _check_burst finds for the window
     dropped |-> 0]         \* entries an update_settings removed, or that
                            \*   the append of a keystroke did not keep

ShInit ==
    [wdOff |-> FALSE,       \* the latest update_watchdog_state disabled a
                            \*   Watchdog that this Orchestrator had launched
     sdDone |-> FALSE,      \* a _shutdown has run to its end
     restarted |-> FALSE,   \* the user has started the program again
     rejected |-> 0]        \* pid of the client that the latest accept()
                            \*   refused for its key, or 0

\* Uninstalls and closes are counted from the first Exit send until the
\* Daemon has finished handling an Exit.
Counting == hist.exitsSent > 0 /\ ~hist.sdHandled

Count(h, unhooked, closed) ==
    IF Counting
    THEN [h EXCEPT !.unhooks = Sat(@ + (IF unhooked THEN 1 ELSE 0)),
                   !.closes = Sat(@ + (IF closed THEN 1 ELSE 0))]
    ELSE h

\* The installed hooks after a handler that installed one and uninstalled
\* one (in that order).
Hooks(n, installed, unhooked) ==
    LET up == IF installed THEN Sat(n + 1) ELSE n
    IN  IF unhooked /\ up > 0 THEN up - 1 ELSE up

Monitoring == daemon.pc = "loop" /\ daemon.running /\ daemon.hook
Idle == daemon.pc = "loop" /\ ~daemon.running /\ ~daemon.hook


(***************************************************************************)
(* Spec: the Daemon's run loop and the Orchestrator's command side.  The   *)
(* Orchestrator runs with the watchdog enabled (Config.watchdog_enabled    *)
(* defaults to True), so it holds no daemon_process of its own.            *)
(***************************************************************************)
InitBut(k, enabled, loaded) ==
    /\ daemon = DuckHuntDaemon
    /\ peer = FALSE
    /\ inbox = << >>
    /\ ctl = DuckHuntController
    /\ hist = HistInit
    /\ session = FALSE
    /\ wts = << >>
    /\ mon = "idle"
    /\ obox = << >>
    /\ ih = IhInit
    /\ orch = [OrchestratorProcess(k) EXCEPT !.watchdog_enabled = enabled]
    /\ watchdog = NoWatchdog
    /\ dprocs = [p \in Pids |-> NoProcess]
    /\ kills = 0
    /\ sh = ShInit
    /\ inst = [i \in Insts |-> NotStarted]
    /\ pipes = [main |-> 0, window |-> 0]
    /\ det = KeystrokeDetector
    /\ dh = NoCall
    /\ settings = loaded
    /\ hnd = HandleInit
    /\ sm = SessionMonitor
    /\ au = AutoStart

InitAll(k, enabled, loaded) ==
    /\ InitBut(k, enabled, loaded)
    /\ pp = ParanoidPolicy(<< 1 >>, TRUE)

\* No configuration file is found: Config.load() returns Config().
InitWith(k, enabled) == InitAll(k, enabled, Config)

\* The Orchestrator has drawn its key and loaded its configuration, in which
\* the watchdog is enabled; no Watchdog and no Daemon runs yet.
Init == InitWith(CHOOSE k \in AuthSecrets : TRUE, TRUE)

\* The Daemon's end of the connection is closed or released: the
\* Orchestrator's handle, if it is this connection, becomes stale.
DaemonEndGone(c) ==
    [c EXCEPT !.client_conn = IF @ = "live" THEN "stale" ELSE @]

\* run(), connection loop: Client() fails fast when nothing listens.
DConnectFail ==
    /\ daemon.pc = "connect"
    /\ ctl.pc = "down"
    /\ hist' = [hist EXCEPT !.retried = TRUE]
    /\ UNCHANGED << daemon, peer, inbox, ctl >>
    /\ UNCHANGED << incVars, supVars, laterVars >>

\* run(), connection loop: Client() returns once accept() has authenticated
\* it; accept_loop stores the connection in client_conn.
DConnect ==
    /\ daemon.pc = "connect"
    /\ ctl.pc # "down"
    /\ ctl.client_conn = "None"
    /\ daemon' = [daemon EXCEPT !.conn = "open", !.pc = "hello"]
    /\ peer' = TRUE
    /\ inbox' = << >>
    /\ ctl' = [ctl EXCEPT !.client_conn = "live"]
    /\ hist' = [hist EXCEPT !.lossVia = "none", !.started = FALSE,
                            !.retried = FALSE, !.cfgMon = FALSE,
                            !.reconn = (hist.lossVia # "none")]
    /\ UNCHANGED << incVars, supVars, laterVars >>

\* connect(), after Client(): send_status("connected"), then the loop test.
DHello ==
    /\ daemon.pc = "hello"
    /\ LET r == connect(daemon, peer)
       IN  daemon' = [r.d EXCEPT !.pc = IF connection_loop_left(r.d, r.ok)
                                        THEN "loop" ELSE "connect"]
    /\ UNCHANGED << peer, inbox, ctl, hist >>
    /\ UNCHANGED << incVars, supVars, laterVars >>

\* run(), message pump: the hook callback for one key-down.
DKeyDown ==
    /\ daemon.pc = "loop"
    /\ daemon.hook
    /\ \E now \in Times :
         /\ \A i \in 1 .. Len(daemon.detector.timestamps) :
                daemon.detector.timestamps[i] <= now
         /\ LET r == low_level_keyboard_proc(daemon, now, peer)
            IN  /\ daemon' = r.d
                /\ hist' = [hist EXCEPT !.kd =
                      [handled    |-> r.handled,
                       suspicious |-> r.handled /\
                           process_keystroke(daemon.detector, now).value,
                       raised     |-> r.raised,
                       locked     |-> r.locked,
                       reset      |-> r.reset]]
    /\ UNCHANGED << peer, inbox, ctl >>
    /\ UNCHANGED << incVars, supVars, laterVars >>

\* run(): poll() reports a message, recv() returns it, the try block
\* handles it; on an exception the except handler runs.  With track the
\* history keeps what kind of message was handled (hist.last).
Recv(track) ==
    /\ daemon.pc = "loop"
    /\ inbox # << >>
    /\ \E hookOk \in BOOLEAN :
         LET m    == Head(inbox)
             r    == dispatch_message(daemon, m, peer, hookOk)
             x    == connection_lost(r.d)
             gone == r.raised \/ r.returned
             h1   == Count(hist, r.unhooked \/ (r.raised /\ x.unhooked), r.closed)
             h2   == [h1 EXCEPT
                        !.started = @ \/ m.type = MSG_START,
                        !.cfgMon = @ \/ (m.type = MSG_CONFIG
                                          /\ m.payload # << >> /\ Monitoring),
                        !.exitSeen = @ \/ m.type = MSG_EXIT,
                        !.last = IF ~track THEN @
                                 ELSE IF m.type = MSG_START /\ Monitoring
                                 THEN "again"
                                 ELSE IF m.type = MSG_STOP /\ Idle
                                 THEN "idle" ELSE "none",
                        !.hooks = Hooks(@, r.installed,
                                        r.unhooked \/ (r.raised /\ x.unhooked)),
                        !.sdHandled = @ \/ (m.type = MSG_EXIT /\ hist.exitsSent > 0)]
         IN  /\ daemon' = IF r.raised THEN x.d ELSE r.d
             /\ inbox' = IF gone THEN << >> ELSE Tail(inbox)
             /\ peer' = IF gone THEN FALSE ELSE peer
             /\ ctl' = IF gone THEN DaemonEndGone(ctl) ELSE ctl
             /\ hist' = IF r.raised /\ r.why = "send"
                        THEN [h2 EXCEPT !.lossVia = "send",
                                        !.monAtDrop = daemon.running,
                                        !.reconn = FALSE]
                        ELSE h2
    /\ UNCHANGED << incVars, supVars, laterVars >>

DRecv == Recv(FALSE)

\* run(): on a connection whose server end is gone and which holds no
\* data, poll(0.01) raises; the call is outside the try block, so the
\* exception leaves run() and the process ends.
DPollRaises ==
    /\ daemon.pc = "loop"
    /\ daemon.conn = "open" /\ ~peer /\ inbox = << >>
    /\ daemon' = [daemon EXCEPT !.pc = "crashed", !.conn = "None",
                                !.running = FALSE, !.hook = FALSE]
    /\ hist' = [hist EXCEPT !.lossVia = "poll", !.monAtDrop = daemon.running,
                            !.reconn = FALSE, !.hooks = 0]
    /\ UNCHANGED << peer, inbox, ctl >>
    /\ UNCHANGED << incVars, supVars, laterVars >>

\* run(): the server end goes while poll() waits, poll() reports the
\* connection readable and recv() raises EOFError inside the try block.
DRecvEOF ==
    /\ daemon.pc = "loop"
    /\ daemon.conn = "open" /\ ~peer /\ inbox = << >>
    /\ LET x == connection_lost(daemon)
       IN  /\ daemon' = x.d
           /\ hist' = [Count(hist, x.unhooked, FALSE) EXCEPT
                         !.lossVia = "recv", !.monAtDrop = daemon.running,
                         !.reconn = FALSE,
                         !.hooks = Hooks(@, FALSE, x.unhooked)]
    /\ UNCHANGED << peer, inbox, ctl >>
    /\ UNCHANGED << incVars, supVars, laterVars >>

Commands ==
    { IPCMessage(MSG_START, << >>), IPCMessage(MSG_STOP, << >>) }
      \cup { IPCMessage(MSG_CONFIG, << p >>) : p \in ConfigPayloads }

\* on_start_request / on_stop_request / SettingsWindow.save /
\* _auto_start_monitor: one send_command, of one of the given commands.
SendCommand(cmds) ==
    /\ ctl.pc # "down"
    /\ ctl.client_conn # "None"
    /\ \E m \in cmds :
         LET r == send_command(ctl, m)
         IN  /\ r.delivered => Len(inbox) < MaxInbox
             /\ ctl' = r.c
             /\ inbox' = IF r.delivered THEN Append(inbox, m) ELSE inbox
    /\ UNCHANGED << daemon, peer, hist >>
    /\ UNCHANGED << incVars, supVars, laterVars >>

OSendCommand == SendCommand(Commands)

\* _shutdown: the first and the second send_command(MSG_EXIT).
OShutdownSend ==
    /\ ctl.pc \in { "run", "sd1" }
    /\ LET m == IPCMessage(MSG_EXIT, << >>)
           r == send_command(ctl, m)
       IN  /\ r.delivered => Len(inbox) < MaxInbox
           /\ ctl' = [r.c EXCEPT !.pc = IF ctl.pc = "run" THEN "sd1" ELSE "sd2"]
           /\ inbox' = IF r.delivered THEN Append(inbox, m) ELSE inbox
           /\ hist' = IF ctl.pc = "run"
                      THEN [hist EXCEPT
                              !.exitsSent = 1,
                              !.sdMon = Monitoring /\ r.delivered /\ inbox = << >>,
                              !.sdHandled = FALSE,
                              !.unhooks = 0, !.closes = 0]
                      ELSE [hist EXCEPT !.exitsSent = 2]
    /\ UNCHANGED << daemon, peer >>
    /\ UNCHANGED << incVars, supVars, laterVars >>

\* The Orchestrator's process is gone: every handle it held is closed.
ProcessGone ==
    /\ ctl' = [ctl EXCEPT !.pc = "down", !.client_conn = "None"]
    /\ peer' = FALSE
    /\ UNCHANGED << daemon, inbox, hist >>
    /\ UNCHANGED << incVars, supVars, laterVars >>

\* _shutdown, after the two sends: the Watchdog is killed, the listeners
\* are closed, the main loop quits and the process ends.
OShutdownExit ==
    /\ ctl.pc = "sd2"
    /\ ProcessGone

\* The Orchestrator's process is killed.
OKilled ==
    /\ ctl.pc = "run"
    /\ ProcessGone

\* A new Orchestrator starts and binds the main channel.
OStart ==
    /\ ctl.pc = "down"
    /\ ctl' = DuckHuntController
    /\ hist' = [hist EXCEPT !.exitsSent = 0, !.sdMon = FALSE]
    /\ UNCHANGED << daemon, peer, inbox >>
    /\ UNCHANGED << incVars, supVars, laterVars >>

\* handle_client: recv() raises EOFError on a connection whose client end
\* is closed; the handle is cleared and accept_loop accepts again.
OHandleEOF ==
    /\ ctl.pc # "down"
    /\ ctl.client_conn = "stale"
    /\ ctl' = [ctl EXCEPT !.client_conn = "None"]
    /\ UNCHANGED << daemon, peer, inbox, hist >>
    /\ UNCHANGED << incVars, supVars, laterVars >>

Next ==
    \/ DConnectFail
    \/ DConnect
    \/ DHello
    \/ DKeyDown
    \/ DRecv
    \/ DPollRaises
    \/ DRecvEOF
    \/ OSendCommand
    \/ OShutdownSend
    \/ OShutdownExit
    \/ OKilled
    \/ OStart
    \/ OHandleEOF

Spec == Init /\ [][Next]_vars


(***************************************************************************)
(* Properties of the Daemon and of the command side, checked under Spec.   *)
(***************************************************************************)

\* C1: every key-down handled while the Daemon is Monitoring that the
\* Detector's rules classify suspicious makes the Daemon invoke the
\* session lock and then reset the Detector (a failed Detected send does
\* not prevent either).
C1_SuspiciousKeyLocksAndResets ==
    (hist.kd.handled /\ hist.kd.suspicious)
        => (hist.kd.locked /\ hist.kd.reset)

\* C2: once the Daemon has observed the loss of the channel (by a failed
\* poll, a failed receive or a failed send while handling a message) it is
\* Idle in its reconnect loop, observer uninstalled, until it reconnects:
\* it has neither terminated nor given up.
C2_LossLeadsToReconnectLoop ==
    hist.lossVia # "none"
        => (daemon.pc = "connect" /\ ~daemon.hook /\ ~daemon.running)

\* C3: whenever the Daemon is in its reconnect loop or holds no connection,
\* the keyboard observer is not installed and the running flag is false.
C3_NoCaptureWhileUnsupervised ==
    (daemon.pc = "connect" \/ daemon.conn = "None")
        => (~daemon.hook /\ ~daemon.running)

\* C3 witness: the Daemon sits in the reconnect loop after a loss it
\* observed while Monitoring.
C3_Witness ==
    /\ daemon.pc = "connect"
    /\ hist.lossVia \in { "recv", "send" }
    /\ hist.monAtDrop

\* C4: a Daemon that has reconnected after a channel drop stays Idle
\* (observer not installed, not running, empty Detector window) for as long
\* as it has handled no Start on the new connection.
C4_NoAutoResumeOnReconnect ==
    (hist.reconn /\ daemon.pc \in { "hello", "loop" } /\ ~hist.started)
        => (~daemon.hook /\ ~daemon.running
            /\ daemon.detector.timestamps = << >>)

\* C4 witness: the Daemon was Monitoring at the drop, has reconnected to a
\* live Orchestrator, has handled no Start yet and is Idle.
C4_Witness ==
    /\ hist.reconn /\ hist.monAtDrop /\ ~hist.started
    /\ Idle /\ peer /\ ctl.client_conn = "live"

\* C5: once the Daemon has received an Exit it is terminated, with the
\* observer uninstalled and the channel closed; it is never back in the
\* reconnect loop or in its message loop.
C5_ExitTerminates ==
    hist.exitSeen
        => (daemon.pc = "exited" /\ ~daemon.hook /\ daemon.conn = "closed")

\* C6: when Exit was sent twice to a Daemon in Monitoring state and the
\* Daemon has handled it, exactly one observer uninstall and exactly one
\* channel close have happened and no error escaped in the Orchestrator.
C6_DoubleExitOneUninstallOneClose ==
    (hist.sdMon /\ hist.exitsSent = 2 /\ hist.sdHandled)
        => (hist.unhooks = 1 /\ hist.closes = 1 /\ ~ctl.err)


(***************************************************************************)
(* SpecIncident: the Orchestrator's event logic.  Three threads share the  *)
(* controller object: the channel thread (handle_client), the              *)
(* session-monitor thread (wnd_proc calling on_session_lock and            *)
(* on_session_unlock, one notification at a time) and the main loop        *)
(* (process_gui_queue).  The unlock callback is four statements, and the   *)
(* other threads can run between any two of them.                          *)
(***************************************************************************)
\* longest queue of session notifications waiting at the monitor's window
MaxEvents == 2
\* longest queue of messages waiting in the pipe towards the Orchestrator
MaxObox == 1
\* longest gui_queue
MaxQueue == 2

\* What a client sends on the main channel: Detected, and the statuses of
\* send_status.
ClientMessages ==
    { IPCMessage(MSG_DETECTED, << >>) }
      \cup { IPCMessage(MSG_STATUS, << [status |-> st] >>) :
               st \in { "connected", "running", "stopped" } }

\* The workstation gets locked (LockWorkStation or the user): the session
\* monitor's window is sent WTS_SESSION_LOCK.
SessionLocks ==
    /\ ~session
    /\ Len(wts) < MaxEvents
    /\ session' = TRUE
    /\ wts' = Append(wts, "lock")
    /\ UNCHANGED << ctl, mon, obox, ih, runVars, supVars, laterVars >>

\* The user unlocks the workstation: WTS_SESSION_UNLOCK.
SessionUnlocks ==
    /\ session
    /\ Len(wts) < MaxEvents
    /\ session' = FALSE
    /\ wts' = Append(wts, "unlock")
    /\ UNCHANGED << ctl, mon, obox, ih, runVars, supVars, laterVars >>

\* wnd_proc for WTS_SESSION_LOCK: on_session_lock().
MonLock ==
    /\ mon = "idle"
    /\ wts # << >> /\ Head(wts) = "lock"
    /\ ctl' = on_session_lock(ctl)
    /\ wts' = Tail(wts)
    /\ UNCHANGED << session, mon, obox, ih, runVars, supVars, laterVars >>

\* wnd_proc for WTS_SESSION_UNLOCK: on_session_unlock(), first statement.
MonUnlockBegin ==
    /\ mon = "idle"
    /\ wts # << >> /\ Head(wts) = "unlock"
    /\ ctl' = unlock_set_unlocked(ctl)
    /\ wts' = Tail(wts)
    /\ mon' = "check"
    /\ ih' = [ih EXCEPT !.cb = NoCallback]
    /\ UNCHANGED << session, obox, runVars, supVars, laterVars >>

\* on_session_unlock: the test of incident_pending; the callback returns
\* when it is false.
MonUnlockCheck ==
    /\ mon = "check"
    /\ LET seen == unlock_sees_incident(ctl)
       IN  /\ mon' = IF seen THEN "put" ELSE "idle"
           /\ ih' = [ih EXCEPT
                       !.cb = [@ EXCEPT !.seen = seen,
                                        !.fromLocked = ih.pendLocked,
                                        !.quiet = ih.returned /\ ~ih.sinceReturn,
                                        !.gap = ih.gap,
                                        !.done = ~seen,
                                        !.flagAfter = ctl.incident_pending],
                       !.pendLocked = FALSE,
                       !.gap = FALSE,
                       !.sinceReturn = seen /\ @,
                       !.returned = @ \/ ~seen]
    /\ UNCHANGED << ctl, session, wts, obox, runVars, supVars, laterVars >>

\* on_session_unlock: the notification is queued.
MonUnlockPut ==
    /\ mon = "put"
    /\ Len(ctl.gui_queue) < MaxQueue
    /\ ctl' = unlock_put(ctl)
    /\ mon' = "clear"
    /\ ih' = [ih EXCEPT !.cb.enq =
                 Sat(@ + Len(ctl'.gui_queue) - Len(ctl.gui_queue)),
                        !.owed = FALSE]
    /\ UNCHANGED << session, wts, obox, runVars, supVars, laterVars >>

\* on_session_unlock: the flag is cleared and the callback returns.
MonUnlockClear ==
    /\ mon = "clear"
    /\ ctl' = unlock_clear(ctl)
    /\ mon' = "idle"
    /\ ih' = [ih EXCEPT !.cb.done = TRUE,
                        !.cb.flagAfter = ctl'.incident_pending,
                        !.sinceReturn = FALSE,
                        !.returned = TRUE]
    /\ UNCHANGED << session, wts, obox, runVars, supVars, laterVars >>

\* The connected client sends a message.
PeerSends ==
    /\ Len(obox) < MaxObox
    /\ \E m \in ClientMessages : obox' = Append(obox, m)
    /\ UNCHANGED << ctl, session, wts, mon, ih, runVars, supVars, laterVars >>

\* handle_client: recv() returns a Detected, _handle_detected().
HandleDetected ==
    /\ obox # << >>
    /\ Head(obox).type = MSG_DETECTED
    /\ ctl' = handle_detected(ctl)
    /\ obox' = Tail(obox)
    /\ ih' = [ih EXCEPT
                !.det = [handled   |-> TRUE,
                         locked    |-> ctl.is_locked,
                         flagAfter |-> ctl'.incident_pending,
                         emitted   |-> ctl'.gui_queue # ctl.gui_queue],
                !.pendLocked = @ \/ ctl.is_locked,
                !.gap = TRUE,
                !.sinceReturn = TRUE,
                !.owed = TRUE]
    /\ UNCHANGED << session, wts, mon, runVars, supVars, laterVars >>

\* handle_client: recv() returns a Status, _handle_status(msg).
HandleStatus ==
    /\ obox # << >>
    /\ Head(obox).type = MSG_STATUS
    /\ LET c == handle_status(ctl, Head(obox))
       IN  /\ Len(c.gui_queue) <= MaxQueue
           /\ ctl' = c
    /\ obox' = Tail(obox)
    /\ ih' = [ih EXCEPT !.same = (StatusOf(Head(obox)) = ctl.daemon_status)]
    /\ UNCHANGED << session, wts, mon, runVars, supVars, laterVars >>

\* Main loop: one process_gui_queue that finds closures queued.
MainTick ==
    /\ ctl.gui_queue # << >>
    /\ ctl' = process_gui_queue(ctl).c
    /\ UNCHANGED << session, wts, mon, obox, ih, runVars, supVars, laterVars >>

NextIncident ==
    \/ SessionLocks
    \/ SessionUnlocks
    \/ MonLock
    \/ MonUnlockBegin
    \/ MonUnlockCheck
    \/ MonUnlockPut
    \/ MonUnlockClear
    \/ PeerSends
    \/ HandleDetected
    \/ HandleStatus
    \/ MainTick

SpecIncident == Init /\ [][NextIncident]_vars


(***************************************************************************)
(* Properties of the incident logic, checked under SpecIncident.           *)
(***************************************************************************)

\* C7: a Detected handled while is_locked sets incident_pending and queues
\* no notification; the unlock callback that follows queues exactly one
\* incident notification and returns with the flag cleared; an unlock
\* callback with no Detected handled since the callback before it returned
\* queues none.
C7_DetectedWhileLockedNotifiedAtUnlock ==
    /\ (ih.det.handled /\ ih.det.locked)
           => (ih.det.flagAfter /\ ~ih.det.emitted)
    /\ (ih.cb.done /\ ih.cb.fromLocked)
           => (ih.cb.enq = 1 /\ ~ih.cb.flagAfter)
    /\ (ih.cb.done /\ ih.cb.quiet) => ih.cb.enq = 0

\* C7 witness: a Detected was handled while the session was locked and the
\* unlock callback after it has returned, one notification queued, the flag
\* cleared.
C7_Witness ==
    /\ ih.det.handled /\ ih.det.locked
    /\ ih.cb.done /\ ih.cb.fromLocked /\ ih.cb.enq = 1
    /\ ~ctl.incident_pending

\* C8: an unlock callback never queues a second incident notification, and
\* when one or more Detected were handled between the flag test of the
\* unlock callback before it and its own flag test, it queues exactly one.
C8_OneNotificationPerUnlockGap ==
    /\ ih.cb.enq <= 1
    /\ (ih.cb.done /\ ih.cb.gap) => ih.cb.enq = 1

\* A step that queues an incident notification.
IncidentEnqueued ==
    /\ Len(ctl'.gui_queue) = Len(ctl.gui_queue) + 1
    /\ ctl'.gui_queue[Len(ctl'.gui_queue)] = "incident"

\* A step of the main loop that displays an incident notification.
IncidentDisplayed ==
    /\ ctl'.gui_queue = << >>
    /\ \E i \in 1 .. Len(ctl.gui_queue) : ctl.gui_queue[i] = "incident"

\* C9 as stated: the incident notification is neither queued nor displayed
\* in a state where is_locked holds.
C9_NeverEmittedWhileLocked ==
    [][(IncidentEnqueued \/ IncidentDisplayed) => ~ctl.is_locked]_vars

\* C9 amended: the incident notification is queued only in a state where
\* is_locked is false (by the unlock callback, after it has recorded the
\* unlock).
C9_EnqueuedOnlyWhileUnlocked ==
    [][IncidentEnqueued => (~ctl.is_locked /\ ~ctl'.is_locked)]_vars

\* C9 witness: the unlock callback has just queued the incident
\* notification, the session recorded as unlocked.
C9_Witness ==
    /\ mon = "clear"
    /\ ctl.gui_queue # << >>
    /\ ctl.gui_queue[Len(ctl.gui_queue)] = "incident"
    /\ ~ctl.is_locked


(***************************************************************************)
(* SpecSup: the processes.  An Orchestrator started by the user launches   *)
(* a Watchdog, or a Daemon when the watchdog is disabled; the Watchdog     *)
(* launches the Daemon and relaunches a dead Orchestrator, and the         *)
(* Orchestrator relaunches a dead Watchdog.  A Daemon's Client() first     *)
(* opens the pipe (it becomes the pending client) and then completes the   *)
(* handshake with the accept loop's listener.accept(); a process can be    *)
(* killed between the two.                                                 *)
(***************************************************************************)
InitSup == \E k \in AuthSecrets, enabled \in BOOLEAN : InitWith(k, enabled)

\* Pids a new process can get: those that no live process has and that
\* neither the Watchdog nor the Orchestrator refers to.
FreePids ==
    { p \in Pids :
        /\ dprocs[p].st \in { "none", "dead" }
        /\ p \notin { watchdog.daemon_process, orch.client_conn, orch.pending,
                      orch.daemon_process } }

\* The pid of the next process: the lowest free one.
FreePid == CHOOSE p \in FreePids : \A q \in FreePids : p <= q

\* The pid of the next Watchdog.
NextWatchdogPid == watchdog.pid + 1

\* A Watchdog can still be launched, and a Daemon can.
CanLaunchWatchdog == NextWatchdogPid <= MaxWatchdogs
CanLaunchDaemon == FreePids # {}

\* DuckHuntController.start of a constructed Orchestrator.
OStartUp ==
    /\ orch.alive /\ orch.pc = "start"
    /\ orch.watchdog_pid = 0 =>
          IF orch.watchdog_enabled THEN CanLaunchWatchdog ELSE CanLaunchDaemon
    /\ \E ok \in BOOLEAN :
         LET r == start(orch, watchdog, dprocs, NextWatchdogPid, FreePid, ok)
         IN  /\ orch' = r.o
             /\ watchdog' = r.w
             /\ dprocs' = r.procs
    /\ UNCHANGED << kills, sh, ctl, runVars, incVars, laterVars >>

\* monitor_watchdog, one iteration of a thread's loop after the sleep: a
\* Watchdog that is not running is launched again; an exception of Popen
\* ends the thread.
OMonitorTick ==
    /\ orch.alive /\ orch.pc # "start" /\ orch.monitors > 0
    /\ ~is_pid_running(watchdog, orch.watchdog_pid)
    /\ CanLaunchWatchdog
    /\ \E ok \in BOOLEAN :
         LET r == launch_watchdog(orch, watchdog, NextWatchdogPid, ok)
         IN  /\ orch' = IF r.raised THEN [orch EXCEPT !.monitors = @ - 1]
                        ELSE r.o
             /\ watchdog' = r.w
    /\ UNCHANGED << dprocs, kills, sh, ctl, runVars, incVars, laterVars >>

\* The user starts the program while no Orchestrator and no Watchdog runs
\* (once in a run): main() finds no instance at the rendezvous channel and
\* constructs an Orchestrator, which draws a key and loads its configuration.
UserStarts ==
    /\ ~orch.alive /\ ~watchdog.alive
    /\ ~sh.restarted
    /\ \E k \in AuthSecrets, enabled \in BOOLEAN :
         orch' = [OrchestratorProcess(k) EXCEPT !.watchdog_enabled = enabled]
    /\ sh' = [sh EXCEPT !.restarted = TRUE]
    /\ UNCHANGED << watchdog, dprocs, kills, ctl, runVars, incVars, laterVars >>

\* Watchdog.run, before the loop: launch_daemon(); an exception of Popen
\* leaves run() and the Watchdog's process ends.
WStart ==
    /\ watchdog.alive /\ watchdog.pc = "start"
    /\ CanLaunchDaemon
    /\ \E ok \in BOOLEAN :
         LET r == launch_daemon(watchdog, dprocs, FreePid, ok)
         IN  /\ watchdog' = IF r.raised
                            THEN [watchdog EXCEPT !.alive = FALSE,
                                                  !.raised = TRUE]
                            ELSE [r.w EXCEPT !.pc = "loop"]
             /\ dprocs' = r.procs
    /\ UNCHANGED << orch, kills, sh, ctl, runVars, incVars, laterVars >>

\* Watchdog.run, one iteration of the loop after the sleep: the Daemon
\* check, then the Orchestrator check.  An exception of Popen leaves run().
WTick ==
    /\ watchdog.alive /\ watchdog.pc = "loop"
    /\ DaemonMissing(watchdog, dprocs) => CanLaunchDaemon
    /\ \E okD, okC \in BOOLEAN :
         LET missing == DaemonMissing(watchdog, dprocs)
             d == IF missing THEN launch_daemon(watchdog, dprocs, FreePid, okD)
                  ELSE [w |-> watchdog, procs |-> dprocs, raised |-> FALSE]
             c == IF ~d.raised /\ ~orch.alive
                  THEN launch_controller(d.w, orch, okC)
                  ELSE [o |-> orch, raised |-> FALSE]
         IN  /\ watchdog' = IF d.raised \/ c.raised
                            THEN [d.w EXCEPT !.alive = FALSE, !.raised = TRUE]
                            ELSE d.w
             /\ dprocs' = d.procs
             /\ orch' = c.o
    /\ UNCHANGED << kills, sh, ctl, runVars, incVars, laterVars >>

\* DuckHuntDaemon.connect: Client() opens the pipe when the Orchestrator
\* listens and no other client is waiting; otherwise it fails and the
\* connection loop tries again.
DClientOpen ==
    \E p \in Pids :
        /\ dprocs[p].st = "connect"
        /\ orch.alive /\ orch.loop # "none" /\ orch.pending = 0
        /\ dprocs' = [dprocs EXCEPT ![p].st = "handshake"]
        /\ orch' = [orch EXCEPT !.pending = p]
        /\ UNCHANGED << watchdog, kills, sh, ctl, runVars, incVars, laterVars >>

\* accept_loop: listener.accept() for the pending client.
SAccept ==
    /\ orch.alive /\ orch.loop = "accept" /\ orch.pending # 0
    /\ LET r == accept(orch, dprocs)
       IN  /\ orch' = r.o
           /\ dprocs' = r.procs
    /\ sh' = [sh EXCEPT !.rejected =
                 IF /\ dprocs[orch.pending].st = "handshake"
                    /\ dprocs[orch.pending].auth_key # orch.auth_key
                 THEN orch.pending ELSE 0]
    /\ UNCHANGED << watchdog, kills, ctl, runVars, incVars, laterVars >>

\* handle_client: recv() raises on the connection of a client that is
\* gone; client_conn is cleared and accept_loop calls accept() again.
SClientGone ==
    /\ orch.alive /\ orch.loop = "handle"
    /\ dprocs[orch.client_conn].st # "connected"
    /\ orch' = [orch EXCEPT !.client_conn = 0, !.loop = "accept"]
    /\ UNCHANGED << watchdog, dprocs, kills, sh, ctl, runVars, incVars, laterVars >>

\* A Daemon process is killed.
DaemonKilled ==
    \E p \in Pids :
        /\ dprocs[p].st \in { "connect", "handshake", "connected" }
        /\ kills < MaxKills
        /\ dprocs' = [dprocs EXCEPT ![p].st = "dead"]
        /\ kills' = kills + 1
        /\ UNCHANGED << watchdog, orch, sh, ctl, runVars, incVars, laterVars >>

\* The Orchestrator's process is killed: its connections close.  A Daemon
\* in its handshake gets an exception from Client(); a connected Daemon
\* either handles the loss and reconnects or ends with the exception of
\* poll().
OrchKilled ==
    /\ orch.alive
    /\ orch' = [orch EXCEPT !.alive = FALSE, !.loop = "ended",
                            !.client_conn = 0, !.pending = 0,
                            !.monitors = 0]
    /\ \E crash \in BOOLEAN :
         dprocs' = [p \in Pids |->
                      IF dprocs[p].st = "handshake"
                      THEN [dprocs[p] EXCEPT !.st = "connect"]
                      ELSE IF dprocs[p].st = "connected"
                      THEN [dprocs[p] EXCEPT !.st = IF crash THEN "dead"
                                                    ELSE "connect"]
                      ELSE dprocs[p]]
    /\ UNCHANGED << watchdog, kills, sh, ctl, runVars, incVars, laterVars >>

\* The Watchdog's process is killed.
WatchdogKilled ==
    /\ watchdog.alive
    /\ watchdog' = [watchdog EXCEPT !.alive = FALSE]
    /\ UNCHANGED << dprocs, orch, kills, sh, ctl, runVars, incVars, laterVars >>

NextSup ==
    \/ OStartUp
    \/ OMonitorTick
    \/ UserStarts
    \/ WStart
    \/ WTick
    \/ DClientOpen
    \/ SAccept
    \/ SClientGone
    \/ DaemonKilled
    \/ OrchKilled
    \/ WatchdogKilled

SpecSup == InitSup /\ [][NextSup]_vars

\* The Watchdog's loop, the Orchestrator's start-up and monitoring thread,
\* the Daemon's connection loop and the Orchestrator's channel thread keep
\* running while their process lives.
SpecSupFair ==
    /\ SpecSup
    /\ WF_vars(OStartUp)
    /\ WF_vars(OMonitorTick)
    /\ WF_vars(WStart)
    /\ WF_vars(WTick)
    /\ WF_vars(DClientOpen)
    /\ WF_vars(SAccept)
    /\ WF_vars(SClientGone)

(***************************************************************************)
(* Properties of the supervision, checked under SpecSupFair.               *)
(***************************************************************************)
\* The Daemon the Watchdog tracks is dead.
TrackedDead ==
    /\ watchdog.daemon_process # 0
    /\ dprocs[watchdog.daemon_process].st = "dead"

\* The Daemon the Watchdog tracks holds the Orchestrator's key and is the
\* Orchestrator's connected client.
TrackedConnected ==
    /\ watchdog.daemon_process # 0
    /\ dprocs[watchdog.daemon_process].st = "connected"
    /\ dprocs[watchdog.daemon_process].auth_key = orch.auth_key
    /\ orch.client_conn = watchdog.daemon_process

\* C10: whenever the tracked Daemon is dead, then, unless the Watchdog or
\* the Orchestrator dies, eventually the Watchdog tracks a Daemon that
\* carries the Orchestrator's key, has authenticated and is the
\* Orchestrator's connected client.
C10_DeadDaemonReplacedAndConnected ==
    TrackedDead ~> (TrackedConnected \/ ~watchdog.alive \/ ~orch.alive)


\* Daemon processes that are alive.
LiveDaemons == { p \in Pids : dprocs[p].st \in { "connect", "handshake", "connected" } }

\* C11: as long as the user has not started the program again, through all
\* deaths and relaunches of the Daemon, the Orchestrator and the Watchdog at
\* most one Daemon process is alive (the model holds one Orchestrator
\* process at a time).
C11_AtMostOneDaemon == ~sh.restarted => Cardinality(LiveDaemons) <= 1

\* C12: a launch that raises is never fatal to the Watchdog: no Watchdog
\* process has left run() through the exception of a launch (after a failed
\* launch it is still in its loop, where the next tick tries again).
C12_LaunchFailureNotFatal == ~watchdog.raised

\* C35: through all deaths and relaunches of the Watchdog, the Orchestrator
\* runs at most one thread of monitor_watchdog (so that one death is seen,
\* and answered by a launch, once).
C35_OneMonitorThread == orch.monitors <= 1

\* The Orchestrator runs supervised by the live Watchdog that launched it.
SupervisedByLive(o, w) ==
    /\ o.alive /\ o.watchdog_pid # 0 /\ ~o.watchdog_process
    /\ is_pid_running(w, o.watchdog_pid)

\* The step launches a Watchdog from the Orchestrator.
LaunchesWatchdog == watchdog'.pid # watchdog.pid /\ watchdog'.alive

\* The step launches a Daemon from the Orchestrator.
LaunchesDaemon ==
    /\ orch'.daemon_process # orch.daemon_process
    /\ dprocs[orch'.daemon_process].st \in { "none", "dead" }
    /\ dprocs'[orch'.daemon_process].st = "connect"

\* C13: an Orchestrator relaunched by the Watchdog holds the AuthSecret of
\* the one it replaces and the Watchdog's pid; while the Watchdog that
\* launched it is alive, no step of it (its start() included, which leaves
\* it with one monitoring thread) launches a Watchdog or a Daemon; and the
\* start() of an Orchestrator that is not supervised launches a Watchdog
\* and no Daemon when the watchdog is enabled, a Daemon and no Watchdog when
\* it is disabled.
C13_SupervisedOnlyMonitors ==
    [][ /\ (~orch.alive /\ orch'.alive /\ watchdog.alive)
            => /\ orch'.auth_key = orch.auth_key
               /\ orch'.watchdog_pid = watchdog.pid
               /\ watchdog.pid # 0
        /\ (SupervisedByLive(orch, watchdog) /\ orch'.alive)
            => /\ ~LaunchesWatchdog
               /\ ~LaunchesDaemon
               /\ (orch.pc = "start" /\ orch'.pc = "run")
                     => (orch'.monitors = 1 /\ dprocs' = dprocs)
        /\ (orch.alive /\ orch.pc = "start" /\ orch.watchdog_pid = 0
              /\ orch'.pc = "run")
            => /\ LaunchesWatchdog = orch.watchdog_enabled
               /\ LaunchesDaemon = ~orch.watchdog_enabled
      ]_vars

\* A relaunched Orchestrator has started and monitors the live Watchdog that
\* launched it.
C13_Witness ==
    /\ SupervisedByLive(orch, watchdog)
    /\ orch.pc = "run" /\ orch.monitors = 1
    /\ orch.auth_key = FromHex(watchdog.auth_key)

\* Live Daemons whose key differs from the Orchestrator's.
WrongKeyDaemons ==
    { p \in LiveDaemons : orch.alive /\ dprocs[p].auth_key # orch.auth_key }

\* C14: a Daemon whose key differs from the Orchestrator's is never the
\* Orchestrator's client_conn, nor the client that handle_client reads from,
\* and never gets past its connection loop (it is never connected, which
\* Monitoring requires): it is trying to connect or waiting in a handshake.
C14_WrongKeyRejected ==
    \A p \in WrongKeyDaemons :
        /\ orch.client_conn # p
        /\ dprocs[p].st \in { "connect", "handshake" }

\* accept() has just refused a Daemon for its key, and that Daemon is back
\* in its connection loop.
C14_Witness ==
    /\ sh.rejected \in WrongKeyDaemons
    /\ dprocs[sh.rejected].st = "connect"
    /\ orch.pending = 0

(***************************************************************************)
(* SpecLife: processes started in the Orchestrator role, each from main()  *)
(* to its end; they meet at the two named pipes.                           *)
(***************************************************************************)
\* A process is started in the Orchestrator role: by the user, or by a
\* Watchdog with --auth-key and --watchdog-pid.
MStart(i) ==
    /\ inst[i].pc = "off"
    /\ \E supervised, enabled \in BOOLEAN :
         inst' = [inst EXCEPT ![i] =
                    [@ EXCEPT !.pc = "check", !.supervised = supervised,
                              !.watchdog_pid = supervised,
                              !.enabled = enabled]]
    /\ UNCHANGED << pipes, ctl, runVars, incVars, supVars, detVars, moreVars >>

\* main(): the single-instance check.  Client() connects when the pipe of
\* the rendezvous channel exists.
MCheck(i) ==
    /\ inst[i].pc = "check"
    /\ inst' = [inst EXCEPT ![i] = single_instance_check(@, pipes.window # 0)]
    /\ UNCHANGED << pipes, ctl, runVars, incVars, supVars, detVars, moreVars >>

\* start(): start_ipc_server.
MBindMain(i) ==
    /\ inst[i].pc = "bind_main"
    /\ LET c == bind_main(inst[i], pipes.main = 0)
       IN  /\ inst' = [inst EXCEPT ![i] = c]
           /\ pipes' = Owned(pipes, i, c)
    /\ UNCHANGED << ctl, runVars, incVars, supVars, detVars, moreVars >>

\* start(): start_window_ipc_server.
MBindWindow(i) ==
    /\ inst[i].pc = "bind_window"
    /\ LET c == start_window_ipc_server(inst[i], pipes.window = 0)
       IN  /\ inst' = [inst EXCEPT ![i] = c]
           /\ pipes' = Owned(pipes, i, c)
    /\ UNCHANGED << ctl, runVars, incVars, supVars, detVars, moreVars >>

\* start(): the launch, then the main loop.
MLaunch(i) ==
    /\ inst[i].pc = "launch"
    /\ \E ok \in BOOLEAN :
         LET c == start_launch(inst[i], ok)
         IN  /\ inst' = [inst EXCEPT ![i] = c]
             /\ pipes' = Owned(pipes, i, c)
    /\ UNCHANGED << ctl, runVars, incVars, supVars, detVars, moreVars >>

\* on_exit_request: _shutdown is put on the queue of the main loop.
MExitRequest(i) ==
    /\ inst[i].pc = "run"
    /\ inst' = [inst EXCEPT ![i].pc = "shutdown"]
    /\ UNCHANGED << pipes, ctl, runVars, incVars, supVars, detVars, moreVars >>

\* The main loop calls _shutdown, and the process ends.
MShutdown(i) ==
    /\ inst[i].pc = "shutdown"
    /\ LET c == shutdown(inst[i])
       IN  /\ inst' = [inst EXCEPT ![i] = c]
           /\ pipes' = Owned(pipes, i, c)
    /\ UNCHANGED << ctl, runVars, incVars, supVars, detVars, moreVars >>

\* The process is killed: what it held is gone.
MKilled(i) ==
    /\ inst[i].pc \notin { "off", "exited" }
    /\ LET c == [NotStarted EXCEPT !.pc = "exited", !.code = 1,
                                   !.checked = inst[i].checked]
       IN  /\ inst' = [inst EXCEPT ![i] = c]
           /\ pipes' = Owned(pipes, i, c)
    /\ UNCHANGED << ctl, runVars, incVars, supVars, detVars, moreVars >>

NextLife ==
    \E i \in Insts :
        \/ MStart(i)
        \/ MCheck(i)
        \/ MBindMain(i)
        \/ MBindWindow(i)
        \/ MLaunch(i)
        \/ MExitRequest(i)
        \/ MShutdown(i)
        \/ MKilled(i)

SpecLife == Init /\ [][NextLife]_vars

\* The process holds a channel or has launched a process.
BoundOrLaunched(c) ==
    \/ c.listener \/ c.window_listener
    \/ c.watchdog_process \/ c.daemon_process

\* C15: a process started in the Orchestrator role binds a channel or
\* launches a Watchdog or a Daemon only after its connect to the rendezvous
\* channel has failed; when the connect succeeded it has exited with code 0
\* and has bound and launched nothing; when it failed the process has gone
\* on to start the Orchestrator.
C15_SingleInstanceCheck ==
    \A i \in Insts :
        LET c == inst[i]
        IN  /\ (BoundOrLaunched(c) \/ c.pc \in { "bind_main", "bind_window",
                    "launch", "run", "shutdown" })
                 => c.checked = "failed"
            /\ c.checked = "connected"
                 => (c.pc = "exited" /\ c.code = 0 /\ ~BoundOrLaunched(c))
            /\ c.checked = "failed" => c.pc \notin { "off", "check" }
            /\ c.checked = "no" => c.pc \in { "off", "check", "exited" }

\* One process runs as Orchestrator with the rendezvous channel bound, and
\* another one has found it and exited with code 0.
C15_Witness ==
    \E i, j \in Insts :
        /\ inst[i].pc = "run" /\ inst[i].window_listener /\ pipes.window = i
        /\ inst[j].checked = "connected" /\ inst[j].code = 0

\* The processes that have passed start() and run as Orchestrator.
Orchestrators == { i \in Insts : inst[i].pc \in { "run", "shutdown" } }

\* C38: of the processes started in the Orchestrator role, at most one at a
\* time has passed the single-instance check and start() and runs as
\* Orchestrator.
C38_AtMostOneOrchestrator == Cardinality(Orchestrators) <= 1

\* Place of an entry of log in the order of the shutdown: Exit to the
\* Daemon, the Watchdog, the Daemon process, the Session Lock Monitor, the
\* channels, the end.  The tray icon is stopped along with the monitor.
ShutdownRank(x) ==
    CASE x = "send_exit" -> 1
      [] x \in { "terminate_watchdog", "taskkill_watchdog" } -> 2
      [] x = "terminate_daemon" -> 3
      [] x \in { "stop_session_monitor", "stop_tray" } -> 4
      [] x \in { "close_listener", "close_window_listener" } -> 5
      [] OTHER -> 6

\* Number of entries x in a log.
Occurrences(log, x) == Cardinality({ k \in 1 .. Len(log) : log[k] = x })

\* The process has run _shutdown to its end.
ShutDown(c) == c.pc = "exited" /\ c.log # << >>

\* C16: a process that has run _shutdown has done, in this order and each
\* once: two sends of Exit, the termination or kill of the Watchdog when it
\* has one, the termination of the Daemon process when it owns one, the stop
\* of the Session Lock Monitor, the close of each channel it had bound, and
\* last the end of the main loop, with which it has exited; no entry of the
\* log precedes one of an earlier place.
C16_ShutdownOrder ==
    \A i \in Insts :
        LET c == inst[i]
            log == c.log
        IN  /\ \A k \in 1 .. Len(log) - 1 :
                   ShutdownRank(log[k]) <= ShutdownRank(log[k + 1])
            /\ ShutDown(c) =>
                 /\ Occurrences(log, "send_exit") = 2
                 /\ Occurrences(log, "terminate_watchdog")
                      = (IF c.watchdog_process THEN 1 ELSE 0)
                 /\ Occurrences(log, "taskkill_watchdog")
                      = (IF ~c.watchdog_process /\ c.watchdog_pid THEN 1
                         ELSE 0)
                 /\ Occurrences(log, "terminate_daemon")
                      = (IF c.daemon_process THEN 1 ELSE 0)
                 /\ Occurrences(log, "stop_session_monitor") = 1
                 /\ Occurrences(log, "close_listener") <= 1
                 /\ Occurrences(log, "close_window_listener") <= 1
                 /\ ~c.listener /\ ~c.window_listener
                 /\ log[Len(log)] = "quit" /\ Occurrences(log, "quit") = 1
                 /\ c.code = 0
            /\ (c.pc # "exited") => log = << >>

\* A process that had bound both channels and launched its Watchdog has run
\* _shutdown.
C16_Witness ==
    \E i \in Insts :
        /\ ShutDown(inst[i])
        /\ Occurrences(inst[i].log, "terminate_watchdog") = 1
        /\ Occurrences(inst[i].log, "close_listener") = 1
        /\ Occurrences(inst[i].log, "close_window_listener") = 1

(***************************************************************************)
(* SpecDet: a KeystrokeDetector under any sequence of keystrokes, hook     *)
(* callbacks, settings updates and resets.  Settings are unsigned, as the  *)
(* settings window and the configuration file give them.                   *)
(***************************************************************************)
\* largest history_size and burst_keys of a settings update
MaxSize == 3
\* latest time of a keystroke
MaxStamp == 3
Stamps == 0 .. MaxStamp
Thresholds == { 1, 2 }
BurstWindows == { 2 }

\* The arguments of update_settings.
DetConfigs ==
    [threshold : Thresholds, history_size : 0 .. MaxSize,
     burst_keys : 0 .. MaxSize, burst_window_ms : BurstWindows,
     allow_auto_type : BOOLEAN]

\* Time does not run backwards: a keystroke is not older than the window.
NotOlder(k, t) == \A i \in 1 .. Len(k.timestamps) : k.timestamps[i] <= t

\* process_keystroke(timestamp)
DetKey ==
    /\ Len(det.timestamps) < MaxSize \/ det.maxlen <= MaxSize
    /\ \E t \in Stamps :
         /\ NotOlder(det, t)
         /\ LET r == process_keystroke(det, t)
                s == check_speed(r.det)
                b == check_burst(r.det)
            IN  /\ det' = r.det
                /\ dh' = [NoCall EXCEPT !.op = "key",
                                        !.raised = r.raised,
                                        !.value = r.value,
                                        !.speed = ~s.raised /\ s.value,
                                        !.burst = ~b.raised /\ b.value,
                                        !.dropped = Len(det.timestamps) + 1
                                                      - Len(r.det.timestamps)]
    /\ UNCHANGED << ctl, runVars, incVars, supVars, lifeVars, moreVars >>

\* The hook callback's call process_keystroke(is_injected=...).
DetCallback ==
    /\ Len(det.timestamps) < MaxSize \/ det.maxlen <= MaxSize
    /\ \E t \in Stamps, is_injected \in BOOLEAN :
         /\ NotOlder(det, t)
         /\ LET r == process_keystroke_call(det, CallbackKeywords, t)
            IN  /\ det' = r.det
                /\ dh' = [NoCall EXCEPT !.op = "callback",
                                        !.injected = is_injected,
                                        !.raised = r.raised,
                                        !.value = r.value]
    /\ UNCHANGED << ctl, runVars, incVars, supVars, lifeVars, moreVars >>

\* update_settings
DetUpdate ==
    /\ \E p \in DetConfigs :
         LET r == update_settings(det, p)
         IN  /\ det' = r.det
             /\ dh' = [NoCall EXCEPT !.op = "update",
                                     !.raised = r.raised,
                                     !.dropped = Len(det.timestamps)
                                                   - Len(r.det.timestamps)]
    /\ UNCHANGED << ctl, runVars, incVars, supVars, lifeVars, moreVars >>

\* reset
DetReset ==
    /\ det' = reset(det)
    /\ dh' = [NoCall EXCEPT !.op = "reset"]
    /\ UNCHANGED << ctl, runVars, incVars, supVars, lifeVars, moreVars >>

NextDet ==
    \/ DetKey
    \/ DetCallback
    \/ DetUpdate
    \/ DetReset

SpecDet == Init /\ [][NextDet]_vars

\* C17: after a keystroke the speed check reports suspicious exactly when
\* the window holds history_size entries (at least two, so that an average
\* interval exists) and (newest - oldest) / (count - 1) < threshold_ms; the
\* quotient is compared after multiplying by count - 1.
C17_SpeedCheck ==
    dh.op = "key" =>
        LET w == det.timestamps
            n == Len(w)
        IN  dh.speed <=> /\ n = det.history_size
                         /\ n >= 2
                         /\ (w[n] - w[1]) < det.threshold_ms * (n - 1)

\* A keystroke has filled a window of three entries that the speed check
\* reports and the burst check does not.
C17_Witness ==
    /\ dh.op = "key" /\ dh.speed /\ ~dh.burst /\ dh.value
    /\ Len(det.timestamps) = 3 /\ det.history_size = 3

\* The burst condition: the window holds at least burst_keys entries and the
\* newest is less than burst_window_ms after the oldest of the last
\* burst_keys.
BurstCondition(k) ==
    LET w == k.timestamps
        n == Len(w)
    IN  /\ k.burst_keys >= 1
        /\ n >= k.burst_keys
        /\ (w[n] - w[n - k.burst_keys + 1]) < k.burst_window_ms

\* C18: a keystroke after which the burst condition holds is reported
\* suspicious by process_keystroke, whatever the speed check finds; and the
\* burst check never fires on a window of fewer than burst_keys entries.
C18_BurstCheck ==
    dh.op = "key" =>
        /\ BurstCondition(det) => (dh.value /\ ~dh.raised)
        /\ Len(det.timestamps) < det.burst_keys => ~dh.burst

\* C19: with allow_auto_type set, a key-down that the hook callback passes
\* on with is_injected true is classified not suspicious: the call returns
\* false (it does not raise).
C19_InjectedExempt ==
    (dh.op = "callback" /\ dh.injected /\ det.allow_auto_type)
        => (~dh.raised /\ ~dh.value)

\* C20: update_settings with another history_size keeps the most recent
\* min(len, history_size) entries of the window in their order, and with the
\* same history_size it leaves the window as it is.
C20_ResizeKeepsRecent ==
    [][ dh'.op = "update" =>
          LET old == det.timestamps
              new == det'.timestamps
              keep == IF Len(old) <= det'.history_size THEN Len(old)
                      ELSE det'.history_size
          IN  /\ Len(new) = keep
              /\ \A k \in 1 .. keep : new[k] = old[Len(old) - keep + k]
              /\ det'.history_size = det.history_size => new = old
      ]_vars

\* An update has shortened a window of distinct times and left two entries.
C20_Witness ==
    /\ dh.op = "update" /\ dh.dropped > 0
    /\ Len(det.timestamps) = 2
    /\ det.timestamps[1] # det.timestamps[2]

\* C21: after any sequence of process_keystroke, update_settings and reset
\* the window holds at most history_size entries and its capacity is the
\* current history_size; a keystroke appended to a full window removes
\* exactly the oldest entry and keeps the others in their order, and one
\* appended to a window that is not full removes nothing.
C21_RingBuffer ==
    /\ [](Len(det.timestamps) <= det.history_size
            /\ det.maxlen = det.history_size)
    /\ [][ dh'.op = "key" =>
              LET old == det.timestamps
                  new == det'.timestamps
                  n == Len(old)
              IN  IF det.maxlen = 0 THEN new = << >>
                  ELSE IF n = det.maxlen
                  THEN /\ Len(new) = n
                       /\ \A i \in 1 .. (n - 1) : new[i] = old[i + 1]
                  ELSE /\ Len(new) = n + 1
                       /\ \A i \in 1 .. n : new[i] = old[i]
          ]_vars

\* A keystroke was appended to a full window of three distinct times: the
\* oldest is gone, the window still holds three in increasing order.
C21_Witness ==
    /\ dh.op = "key" /\ dh.dropped = 1
    /\ det.maxlen = 3 /\ Len(det.timestamps) = 3
    /\ det.timestamps[1] < det.timestamps[2]
    /\ det.timestamps[2] < det.timestamps[3]
    /\ det.timestamps[1] > 0

(***************************************************************************)
(* Further properties of the Daemon and of the command side, checked under *)
(* Spec.                                                                   *)
(***************************************************************************)
\* The Daemon's loop receives the Config at the head of its pipe.
ConfigReceived ==
    /\ daemon.pc = "loop"
    /\ inbox # << >> /\ Head(inbox).type = MSG_CONFIG
    /\ Len(inbox') < Len(inbox)

notCfg ==
    << incVars, supVars, lifeVars, detVars, handleVars, smVars, restVars >>

\* The detection settings a Detector holds, as a DetectionConfig.
DaemonCopy(k) ==
    [threshold |-> k.threshold_ms, history_size |-> k.history_size,
     burst_keys |-> k.burst_keys, burst_window_ms |-> k.burst_window_ms,
     allow_auto_type |-> k.allow_auto_type]

InitCfg ==
    \E loaded \in ConfigPayloads :
        InitAll(CHOOSE k \in AuthSecrets : TRUE, TRUE, loaded)

DaemonConnected == daemon.pc = "loop" /\ daemon.conn = "open" /\ peer

\* run(), connection loop: connect() succeeds (Client(), then
\* send_status("connected")); accept_loop stores the connection.
CfgConnect ==
    /\ daemon.pc = "connect"
    /\ ctl.client_conn = "None"
    /\ LET d == [daemon EXCEPT !.conn = "open"]
           r == connect(d, TRUE)
       IN  daemon' = [r.d EXCEPT !.pc = IF connection_loop_left(r.d, r.ok)
                                        THEN "loop" ELSE "connect"]
    /\ peer' = TRUE
    /\ inbox' = << >>
    /\ ctl' = [ctl EXCEPT !.client_conn = "live"]
    /\ hist' = [hist EXCEPT !.st = NoStart]
    /\ UNCHANGED << settings, notCfg >>

\* SettingsWindow.save: the values of the window are sent as a Config.
CfgSave ==
    /\ \E p \in ConfigPayloads :
         LET r == send_command(ctl, IPCMessage(MSG_CONFIG, << p >>))
         IN  /\ r.delivered => Len(inbox) < MaxInbox
             /\ settings' = p
             /\ ctl' = r.c
             /\ inbox' = IF r.delivered
                         THEN Append(inbox, IPCMessage(MSG_CONFIG, << p >>))
                         ELSE inbox
    /\ UNCHANGED << daemon, peer, hist, notCfg >>

\* on_start_request / on_stop_request (tray menu)
CfgCommand ==
    /\ \E m \in { IPCMessage(MSG_START, << >>), IPCMessage(MSG_STOP, << >>) } :
         LET r == send_command(ctl, m)
         IN  /\ r.delivered => Len(inbox) < MaxInbox
             /\ ctl' = r.c
             /\ inbox' = IF r.delivered THEN Append(inbox, m) ELSE inbox
    /\ UNCHANGED << daemon, peer, settings, hist,
                    notCfg >>

\* run(): one message is received and handled.
CfgRecv ==
    /\ daemon.pc = "loop"
    /\ inbox # << >>
    /\ \E hookOk \in BOOLEAN :
         LET r == dispatch_message(daemon, Head(inbox), peer, hookOk)
             x == connection_lost(r.d)
             gone == r.raised \/ r.returned
             s == start_monitoring(daemon, peer, hookOk)
         IN  /\ daemon' = IF r.raised THEN x.d ELSE r.d
             /\ inbox' = IF gone THEN << >> ELSE Tail(inbox)
             /\ peer' = IF gone THEN FALSE ELSE peer
             /\ ctl' = IF gone THEN DaemonEndGone(ctl) ELSE ctl
             /\ hist' = IF Head(inbox).type = MSG_START
                        THEN [hist EXCEPT !.st =
                                [handled  |-> TRUE,
                                 refused  |-> ~daemon.hook /\ ~hookOk,
                                 sent     |-> s.sent,
                                 reported |-> s.reported,
                                 again    |-> hist.st.refused]]
                        ELSE hist
    /\ UNCHANGED << settings, notCfg >>

\* The Daemon's process dies and the Watchdog launches another one
\* (DuckHuntDaemon.__init__); handle_client reads the end of the stream and
\* clears the handle.
CfgDaemonRelaunched ==
    /\ daemon.pc = "loop"
    /\ daemon' = DuckHuntDaemon
    /\ peer' = FALSE
    /\ inbox' = << >>
    /\ ctl' = [ctl EXCEPT !.client_conn = "None"]
    /\ hist' = [hist EXCEPT !.st = NoStart]
    /\ UNCHANGED << settings, notCfg >>

NextCfg ==
    \/ CfgConnect
    \/ CfgSave
    \/ CfgCommand
    \/ CfgRecv
    \/ CfgDaemonRelaunched

\* The Daemon's loops run for as long as its process does.
SpecCfg ==
    /\ InitCfg /\ [][NextCfg]_vars
    /\ WF_vars(CfgConnect) /\ WF_vars(CfgRecv)

\* C23: the settings held by a Daemon process change only when it handles a
\* Config, and whenever the Orchestrator's configuration stays at one
\* value for good with a Daemon connected, the Daemon's Detector
\* eventually holds that value for good; the configuration loaded at the
\* Orchestrator's start is one such value.
C23_EventuallyConsistent ==
    /\ [][ (DaemonCopy(daemon'.detector) # DaemonCopy(daemon.detector)
             /\ daemon'.pc # "connect") => ConfigReceived ]_vars
    /\ \A c \in ConfigPayloads :
          <>[](settings = c /\ DaemonConnected)
              => <>[](DaemonCopy(daemon.detector) = c)

(***************************************************************************)
(* Further properties of the Orchestrator's event logic, checked under     *)
(* SpecIncident.                                                           *)
(***************************************************************************)
\* handle_client receives the Status at the head of the pipe.
StatusHandled ==
    /\ obox # << >> /\ Head(obox).type = MSG_STATUS
    /\ obox' = Tail(obox)

\* C24: handling a Status records the reported status and sets the tray's
\* running state to whether it is "running"; a notification is queued, one
\* at most, exactly when the status differs from the one recorded before
\* and is "running" or "stopped", so a Status that repeats the recorded
\* status queues none.
C24_StatusNotifiedOnChange ==
    [][ StatusHandled =>
          LET st == StatusOf(Head(obox))
              note == IF st = ctl.daemon_status THEN << >>
                      ELSE IF st = "running" THEN << "enabled" >>
                      ELSE IF st = "stopped" THEN << "disabled" >>
                      ELSE << >>
          IN  /\ ctl'.daemon_status = st
              /\ ctl'.running_state = (st = "running")
              /\ ctl'.gui_queue = ctl.gui_queue \o note
              /\ st = ctl.daemon_status => ctl'.gui_queue = ctl.gui_queue
      ]_vars

\* Two Status messages in a row reported "running": the first queued the
\* notification, which the main loop has not shown yet, the second none.
C24_Witness ==
    /\ ih.same /\ ctl.daemon_status = "running" /\ ctl.running_state
    /\ ctl.gui_queue = << "enabled" >>

\* A step of the main loop: process_gui_queue takes the queued closures and
\* calls them.
MainLoopRuns == ctl.gui_queue # << >> /\ ctl'.gui_queue = << >>

\* A step of the channel thread (handle_client) or of the session-monitor
\* thread (a lock or unlock callback).
OtherThreadRuns == obox' # obox \/ wts' # wts \/ mon' # mon

\* C25: the tray's running state changes only in steps of the main loop;
\* the steps of the channel thread and of the session-monitor thread leave
\* it as it is and at most append closures to the work queue.
C25_PresentationOnMainLoopOnly ==
    [][ /\ ctl'.running_state # ctl.running_state => MainLoopRuns
        /\ OtherThreadRuns =>
              /\ ctl'.running_state = ctl.running_state
              /\ Len(ctl'.gui_queue) >= Len(ctl.gui_queue)
              /\ SubSeq(ctl'.gui_queue, 1, Len(ctl.gui_queue)) = ctl.gui_queue
      ]_vars

\* C37: a Detected that was handled and that no incident notification has
\* followed yet is still recorded in incident_pending, so that the next
\* unlock callback queues the notification: no unlock callback clears the
\* flag over a Detected handled while it ran.
C37_NoIncidentLost == ih.owed => ctl.incident_pending

(***************************************************************************)
(* SpecHandle: the Orchestrator's client handle.  The accept-loop thread   *)
(* writes it, a thread in send_command (the tray's thread, the auto-start  *)
(* thread or the main loop) reads and clears it; no lock is taken, so the  *)
(* statements of the two threads interleave.  A client's end can break at  *)
(* any time (the Daemon is killed or closes).                              *)
(***************************************************************************)
notHandle ==
    << ctl, runVars, incVars, supVars, lifeVars, detVars, cfgVars, smVars,
       restVars >>

\* A Daemon connects and listener.accept() returns its connection.
HAccept ==
    /\ hnd.acc.pc = "accept"
    /\ \E i \in ConnIds :
         /\ hnd.conns[i] = "none"
         /\ \A j \in ConnIds : j < i => hnd.conns[j] # "none"
         /\ hnd' = accept_returns(hnd, i)
    /\ UNCHANGED notHandle

HAssign ==
    /\ hnd.acc.pc = "assign"
    /\ hnd' = accept_assign(hnd)
    /\ UNCHANGED notHandle

\* The client's end of a connection breaks.
HClientGone ==
    /\ \E i \in ConnIds :
         /\ hnd.conns[i] = "open"
         /\ hnd' = [hnd EXCEPT !.conns[i] = "broken"]
    /\ UNCHANGED notHandle

HServeEnds ==
    /\ hnd.acc.pc = "serve"
    /\ hnd.conns[hnd.acc.conn] = "broken"
    /\ hnd' = handle_client_end(hnd)
    /\ UNCHANGED notHandle

HSendTest(t) ==
    /\ hnd.snd[t].pc = "idle"
    /\ hnd' = send_command_test(hnd, t)
    /\ UNCHANGED notHandle

HSendSend(t) ==
    /\ hnd.snd[t].pc = "tested"
    /\ hnd' = send_command_send(hnd, t)
    /\ UNCHANGED notHandle

HSendExcept(t) ==
    /\ hnd.snd[t].pc = "failed"
    /\ hnd' = send_command_except(hnd, t)
    /\ UNCHANGED notHandle

NextHandle ==
    \/ HAccept
    \/ HAssign
    \/ HClientGone
    \/ HServeEnds
    \/ \E t \in Senders : HSendTest(t)
    \/ \E t \in Senders : HSendSend(t)
    \/ \E t \in Senders : HSendExcept(t)

SpecHandle == Init /\ [][NextHandle]_vars

\* C26: a send_command whose send raises (the handle is stale, or was
\* cleared after the test) ends with the exception absorbed and the handle
\* cleared, the accept loop undisturbed; a send_command that finds no
\* handle drops the command and changes nothing; no exception ever leaves
\* send_command.
C26_SendFailsSoftly ==
    /\ [](\A t \in Senders : hnd.snd[t].out # "escaped")
    /\ [][ \A t \in Senders :
              (hnd.snd[t].pc = "failed" /\ hnd'.snd[t] # hnd.snd[t]) =>
                 hnd' = [hnd EXCEPT
                           !.client_conn = 0,
                           !.snd[t] = [pc |-> "idle", out |-> "absorbed"]]
          ]_vars
    /\ [][ \A t \in Senders :
              (hnd.snd[t].pc = "idle" /\ hnd.client_conn = 0
                 /\ hnd'.snd[t] # hnd.snd[t]) =>
                 hnd' = [hnd EXCEPT
                           !.snd[t] = [pc |-> "idle", out |-> "dropped"]]
          ]_vars

\* The tray's send on a broken connection was absorbed and the handle is
\* cleared while handle_client still serves that connection.
C26_Witness ==
    /\ hnd.snd["tray"] = [pc |-> "idle", out |-> "absorbed"]
    /\ hnd.client_conn = 0
    /\ hnd.acc.pc = "serve" /\ hnd.conns[hnd.acc.conn] = "broken"

\* C27: whenever handle_client serves a connection whose client is alive,
\* client_conn is that connection: a send that failed on an earlier
\* connection does not clear the handle of the one accepted since.
C27_HandleTracksServicedConnection ==
    (hnd.acc.pc = "serve" /\ hnd.conns[hnd.acc.conn] = "open")
        => hnd.client_conn = hnd.acc.conn

(***************************************************************************)
(* Properties of the Daemon's start of monitoring, checked under SpecCfg.  *)
(***************************************************************************)
\* The Daemon's loop receives the Start at the head of its pipe.
StartReceived ==
    /\ daemon.pc = "loop" /\ daemon'.pc = "loop"
    /\ inbox # << >> /\ Head(inbox).type = MSG_START
    /\ inbox' = Tail(inbox)

\* C28: a Start whose hook installation is refused leaves the Daemon as it
\* was, Idle with no hook, on the same connection with both ends open; the
\* failure is printed and no status is sent; and a Start handled after a
\* refused one whose installation succeeds makes the Daemon Monitoring.
C28_RefusedInstallStaysIdle ==
    [][ /\ (StartReceived /\ hist'.st.refused) =>
              /\ Idle
              /\ daemon' = daemon
              /\ daemon'.conn = "open" /\ peer' /\ ctl' = ctl
              /\ hist'.st.reported /\ ~hist'.st.sent
        /\ (StartReceived /\ hist'.st.again /\ ~hist'.st.refused) =>
              (daemon'.hook /\ daemon'.running /\ hist'.st.sent)
      ]_vars

\* The latest Start was refused: the Daemon is Idle and connected, and the
\* Orchestrator's handle is live.
C28_Witness ==
    /\ hist.st.handled /\ hist.st.refused /\ hist.st.reported
    /\ Idle /\ daemon.conn = "open" /\ peer /\ ctl.client_conn = "live"

(***************************************************************************)
(* SpecMon: a SessionMonitor.  Its owner calls start() (twice at most      *)
(* here) and then stop() once; the session's lock and unlock notifications *)
(* are posted to the monitor's window while it exists.  The monitor's      *)
(* thread and the caller of stop() run whenever they can.                  *)
(***************************************************************************)
notMon ==
    << ctl, runVars, incVars, supVars, lifeVars, detVars, cfgVars, handleVars,
       restVars >>

SMStart ==
    /\ sm.starts < MaxStarts
    /\ sm.stop = "idle"
    /\ sm' = monitor_start(sm)
    /\ UNCHANGED notMon

SMStopFlag ==
    /\ sm.starts > 0
    /\ sm.stop = "idle"
    /\ sm' = monitor_stop_flag(sm)
    /\ UNCHANGED notMon

SMStopPost ==
    /\ sm.stop = "flag"
    /\ sm' = monitor_stop_post(sm)
    /\ UNCHANGED notMon

SMCreate ==
    /\ sm.pc = "create"
    /\ \E ok \in BOOLEAN : sm' = run_create(sm, ok)
    /\ UNCHANGED notMon

SMTest ==
    /\ sm.pc = "test"
    /\ sm' = run_test(sm)
    /\ UNCHANGED notMon

SMGet ==
    /\ sm.pc = "wait"
    /\ sm.queue # << >> \/ sm.quit
    /\ sm' = run_get(sm)
    /\ UNCHANGED notMon

SMDispatch ==
    /\ sm.pc = "dispatch"
    /\ sm' = wnd_proc(sm)
    /\ UNCHANGED notMon

\* The session is locked or unlocked: WM_WTSSESSION_CHANGE is posted to
\* the registered window.
SMSessionChange ==
    /\ sm.hwnd /\ sm.pc \in { "test", "wait", "dispatch" }
    /\ Len(sm.queue) < MaxEvents
    /\ \E e \in { "lock", "unlock" } :
         sm' = [sm EXCEPT !.queue = Append(@, e)]
    /\ UNCHANGED notMon

NextMon ==
    \/ SMStart
    \/ SMStopFlag
    \/ SMStopPost
    \/ SMCreate
    \/ SMTest
    \/ SMGet
    \/ SMDispatch
    \/ SMSessionChange

MonThread == SMCreate \/ SMTest \/ SMGet \/ SMDispatch

SpecMon ==
    /\ Init /\ [][NextMon]_vars
    /\ WF_vars(MonThread) /\ WF_vars(SMStopPost)

\* C29: once stop() has been called after start(), wherever the monitor's
\* thread was at that moment, _run returns in the end; after it has
\* returned no callback is invoked and the thread stays ended; and however
\* often start() is called, one thread is created.
C29_StopEndsTheLoop ==
    /\ (sm.stop # "idle") ~> (sm.pc = "done")
    /\ [][ sm.pc = "done" => (sm'.pc = "done" /\ sm'.calls = sm.calls) ]_vars
    /\ [](sm.threads <= 1)

\* stop() was called while the thread was blocked in GetMessageW, after
\* start() had been called twice: the thread has ended.
C29_Witness ==
    /\ sm.starts = 2 /\ sm.threads = 1
    /\ sm.stop = "done" /\ sm.stopAt = "wait"
    /\ sm.pc = "done"

(***************************************************************************)
(* Further properties of the detector, checked under SpecDet.              *)
(***************************************************************************)
\* C30: the process_keystroke that directly follows a reset() returns
\* false (and so does not raise), whatever settings the detector holds.
C30_FirstKeyAfterResetClean ==
    [][ (dh.op = "reset" /\ dh'.op = "key")
            => (~dh'.raised /\ ~dh'.value) ]_vars

\* C34: whatever settings update_settings has stored, process_keystroke
\* returns a boolean (it does not raise), and after every update_settings
\* history_size is the capacity of the window.
C34_DetectorTotal ==
    /\ dh.op = "key" => ~dh.raised
    /\ dh.op = "update" => det.history_size = det.maxlen

(***************************************************************************)
(* A further property of the Daemon, checked under Spec.                   *)
(***************************************************************************)
\* C40: when connect() returns True the Daemon holds an open connection
\* and enters the message loop, and when it returns False the Daemon holds
\* no connection and stays in the connection loop.
C40_ConnectResultMatchesHandle ==
    [][ (daemon.pc = "hello" /\ daemon'.pc # "hello") =>
          IF connect(daemon, peer).ok
          THEN daemon'.conn = "open" /\ daemon'.pc = "loop"
          ELSE daemon'.conn = "None" /\ daemon'.pc = "connect" ]_vars

(***************************************************************************)
(* SpecHook: Spec with the tray's Start and Stop as the only commands      *)
(* besides the Exit of _shutdown, and with the kind of the message handled *)
(* kept in the history.                                                    *)
(***************************************************************************)
HkSendCommand ==
    SendCommand({ IPCMessage(MSG_START, << >>), IPCMessage(MSG_STOP, << >>) })

HkRecv == Recv(TRUE)

NextHook ==
    \/ DConnectFail
    \/ DConnect
    \/ DHello
    \/ DKeyDown
    \/ HkRecv
    \/ DPollRaises
    \/ DRecvEOF
    \/ HkSendCommand
    \/ OShutdownSend
    \/ OShutdownExit
    \/ OKilled
    \/ OStart
    \/ OHandleEOF

SpecHook == Init /\ [][NextHook]_vars

\* The Daemon's loop receives a message of the given type.
Handles(type) ==
    /\ daemon.pc = "loop"
    /\ inbox # << >> /\ Head(inbox).type = type
    /\ Len(inbox') < Len(inbox)

OUpdateWatchdog ==
    /\ orch.alive /\ orch.pc = "run"
    /\ \E enabled, ok \in BOOLEAN :
         /\ (enabled /\ orch.watchdog_pid = 0) => CanLaunchWatchdog
         /\ LET r == update_watchdog_state(orch, watchdog, enabled,
                                           NextWatchdogPid, ok)
            IN  /\ orch' = r.o
                /\ watchdog' = r.w
                /\ sh' = [sh EXCEPT !.wdOff =
                             IF enabled THEN FALSE
                             ELSE @ \/ (orch.watchdog_pid # 0
                                         /\ orch.watchdog_process)]
    /\ UNCHANGED << dprocs, kills, ctl, runVars, incVars, laterVars >>

NextWd ==
    \/ OStartUp
    \/ OMonitorTick
    \/ OUpdateWatchdog
    \/ WStart
    \/ WTick
    \/ DaemonKilled
    \/ WatchdogKilled

SpecWd == InitSup /\ [][NextWd]_vars

\* C32: update_watchdog_state(False) on an Orchestrator that launched its
\* Watchdog leaves that Watchdog terminated and watchdog_pid cleared, and
\* from then until update_watchdog_state(True) is called no Watchdog is
\* launched.
C32_DisabledWatchdogStaysOff ==
    [][ /\ (~sh.wdOff /\ sh'.wdOff)
              => (~watchdog'.alive /\ orch'.watchdog_pid = 0)
        /\ (sh.wdOff /\ sh'.wdOff) => ~LaunchesWatchdog ]_vars

(***************************************************************************)
(* SpecShut: the processes of SpecSup with one shutdown request.  _shutdown *)
(* runs on the main loop in three steps (the Exit sends; the Watchdog's    *)
(* end; the Daemon's end, the listeners' close and the end of the          *)
(* process), between which the Watchdog's loop, the threads of             *)
(* monitor_watchdog and the accept loop run on.  No process is killed from *)
(* outside and the user does not start the program again.                  *)
(***************************************************************************)
\* _shutdown: send_command(MSG_EXIT), twice.
OShutSend ==
    /\ orch.alive /\ orch.pc = "run"
    /\ ~sh.sdDone
    /\ dprocs' = shutdown_send_exit(orch, dprocs)
    /\ orch' = [orch EXCEPT !.pc = "sd_watchdog"]
    /\ UNCHANGED << watchdog, kills, sh, ctl, runVars, incVars, laterVars >>

\* _shutdown: the Watchdog is killed.
OShutWatchdog ==
    /\ orch.alive /\ orch.pc = "sd_watchdog"
    /\ watchdog' = shutdown_kill_watchdog(orch, watchdog)
    /\ orch' = [orch EXCEPT !.pc = "sd_quit"]
    /\ UNCHANGED << dprocs, kills, sh, ctl, runVars, incVars, laterVars >>

\* _shutdown: daemon_process.terminate(), the listeners are closed, the
\* main loop quits and the process ends; the Daemons on its channel lose
\* their connection as in OrchKilled.
OShutQuit ==
    /\ orch.alive /\ orch.pc = "sd_quit"
    /\ orch' = [orch EXCEPT !.alive = FALSE, !.loop = "ended",
                            !.client_conn = 0, !.pending = 0,
                            !.monitors = 0]
    /\ \E crash \in BOOLEAN :
         LET procs == shutdown_kill_daemon(orch, dprocs)
         IN  dprocs' = [p \in Pids |->
                          IF procs[p].st = "handshake"
                          THEN [procs[p] EXCEPT !.st = "connect"]
                          ELSE IF procs[p].st = "connected"
                          THEN [procs[p] EXCEPT !.st = IF crash THEN "dead"
                                                        ELSE "connect"]
                          ELSE procs[p]]
    /\ sh' = [sh EXCEPT !.sdDone = TRUE]
    /\ UNCHANGED << watchdog, kills, ctl, runVars, incVars, laterVars >>

NextShut ==
    \/ OStartUp
    \/ OMonitorTick
    \/ WStart
    \/ WTick
    \/ DClientOpen
    \/ SAccept
    \/ SClientGone
    \/ OShutSend
    \/ OShutWatchdog
    \/ OShutQuit

\* The loops and threads of SpecSupFair, and the main loop that runs
\* _shutdown.
SpecShut ==
    /\ InitSup /\ [][NextShut]_vars
    /\ WF_vars(OStartUp)
    /\ WF_vars(OMonitorTick)
    /\ WF_vars(WStart)
    /\ WF_vars(WTick)
    /\ WF_vars(DClientOpen)
    /\ WF_vars(SAccept)
    /\ WF_vars(SClientGone)
    /\ WF_vars(OShutWatchdog)
    /\ WF_vars(OShutQuit)

\* No process of the program is alive.
AllGone == ~orch.alive /\ ~watchdog.alive /\ LiveDaemons = {}

\* C36: once a _shutdown has run to its end, eventually no Orchestrator, no
\* Watchdog and no Daemon is alive, and it stays so.
C36_ShutdownIsFinal == [](sh.sdDone => <>[]AllGone)

(***************************************************************************)
(* SpecAuto: one Orchestrator lifetime with its _auto_start_monitor thread *)
(* (started by start()), the tray's Start and Stop, and Daemons that       *)
(* connect, handle their commands, die and are relaunched.                 *)
(***************************************************************************)
notAuto ==
    << incVars, supVars, lifeVars, detVars, cfgVars, handleVars, smVars,
       paraVars >>

AuConnect ==
    /\ daemon.pc = "connect"
    /\ ctl.client_conn = "None"
    /\ LET d == [daemon EXCEPT !.conn = "open"]
           r == connect(d, TRUE)
       IN  daemon' = [r.d EXCEPT !.pc = IF connection_loop_left(r.d, r.ok)
                                        THEN "loop" ELSE "connect"]
    /\ peer' = TRUE
    /\ inbox' = << >>
    /\ ctl' = [ctl EXCEPT !.client_conn = "live"]
    /\ au' = [au EXCEPT !.late = (au.pc = "done"), !.user = FALSE]
    /\ UNCHANGED << hist, notAuto >>

\* One iteration of the for loop.
AuPoll ==
    /\ au.pc = "poll"
    /\ LET r == auto_start_poll(ctl, au.i)
       IN  /\ r.delivered => Len(inbox) < MaxInbox
           /\ ctl' = r.c
           /\ inbox' = IF r.delivered
                       THEN Append(inbox, IPCMessage(MSG_START, << >>))
                       ELSE inbox
           /\ au' = [au EXCEPT !.pc = IF r.done THEN "done" ELSE "poll",
                               !.i = r.i,
                               !.sent = IF r.called THEN @ + 1 ELSE @]
    /\ UNCHANGED << daemon, peer, hist, notAuto >>

\* on_start_request / on_stop_request (tray menu)
AuCommand ==
    /\ \E m \in { IPCMessage(MSG_START, << >>), IPCMessage(MSG_STOP, << >>) } :
         LET r == send_command(ctl, m)
         IN  /\ r.delivered => Len(inbox) < MaxInbox
             /\ ctl' = r.c
             /\ inbox' = IF r.delivered THEN Append(inbox, m) ELSE inbox
             /\ au' = [au EXCEPT !.user = @ \/ (r.delivered
                                                /\ m.type = MSG_START)]
    /\ UNCHANGED << daemon, peer, hist, notAuto >>

\* run(): one message is received and handled.
AuRecv ==
    /\ daemon.pc = "loop"
    /\ inbox # << >>
    /\ \E hookOk \in BOOLEAN :
         LET r == dispatch_message(daemon, Head(inbox), peer, hookOk)
             x == connection_lost(r.d)
             gone == r.raised \/ r.returned
         IN  /\ daemon' = IF r.raised THEN x.d ELSE r.d
             /\ inbox' = IF gone THEN << >> ELSE Tail(inbox)
             /\ peer' = IF gone THEN FALSE ELSE peer
             /\ ctl' = IF gone THEN DaemonEndGone(ctl) ELSE ctl
    /\ UNCHANGED << hist, au, notAuto >>

\* The Daemon's process dies and the Watchdog launches another one;
\* handle_client reads the end of the stream and clears the handle.
AuDaemonRelaunched ==
    /\ daemon.pc = "loop"
    /\ daemon' = DuckHuntDaemon
    /\ peer' = FALSE
    /\ inbox' = << >>
    /\ ctl' = [ctl EXCEPT !.client_conn = "None"]
    /\ UNCHANGED << hist, au, notAuto >>

NextAuto ==
    \/ AuConnect
    \/ AuPoll
    \/ AuCommand
    \/ AuRecv
    \/ AuDaemonRelaunched

SpecAuto == Init /\ [][NextAuto]_vars

\* C31: the loop of _auto_start_monitor makes at most AutoStartPolls
\* polls and sends at most one Start in the Orchestrator's lifetime, in a
\* poll that finds a client, after which it has ended; a Daemon whose
\* connection was accepted after the loop's end is Monitoring only after a
\* Start sent by the user on that connection.
C31_AutoStartOnceFromTheLoop ==
    /\ [](au.sent <= 1 /\ au.i <= AutoStartPolls)
    /\ [][ au'.sent # au.sent =>
              /\ au.pc = "poll" /\ au.i < AutoStartPolls
              /\ ctl.client_conn # "None"
              /\ au'.pc = "done" ]_vars
    /\ []((au.late /\ daemon.running) => au.user)
    /\ []((au.late /\ ~au.user) =>
              \A k \in 1..Len(inbox) : inbox[k].type # MSG_START)

\* The loop sent its Start to the first Daemon; a Daemon relaunched after
\* the loop's end is Monitoring after the user's Start.
C31_Witness ==
    /\ au.pc = "done" /\ au.sent = 1
    /\ au.late /\ au.user /\ Monitoring

(***************************************************************************)
(* SpecPara: the legacy detector with a ParanoidPolicy under keystrokes,   *)
(* for every password of the model and both values of allow_auto_type.     *)
(***************************************************************************)
InitPara ==
    \E pw \in Passwords, a \in BOOLEAN :
        /\ InitBut(CHOOSE k \in AuthSecrets : TRUE, TRUE, Config)
        /\ pp = ParanoidPolicy(pw, a)

\* The hook hands one key event to process_keystroke.
PKey ==
    /\ \E code \in Codes, injected \in BOOLEAN, intrusion \in BOOLEAN :
         pp' = legacy_process_keystroke(pp, code, injected, intrusion)
    /\ UNCHANGED << ctl, runVars, incVars, supVars, lifeVars, detVars,
                    cfgVars, handleVars, smVars, autoVars >>

NextPara == PKey

SpecPara == InitPara /\ [][NextPara]_vars

\* The keys typed since the lock end with the password.
PasswordTyped ==
    /\ Len(pp.typed) >= Len(pp.password)
    /\ SubSeq(pp.typed, Len(pp.typed) - Len(pp.password) + 1, Len(pp.typed))
          = pp.password

\* C33: while the keyboard is locked every keystroke is blocked, the one
\* that unlocks included; the lock ends only in a step after which the
\* keys typed since the lock end with the password; and it does not
\* outlast such a step: whenever the keys typed since the lock end with
\* the password, the keyboard is unlocked.
C33_LockedUntilPassword ==
    /\ [][ pp.locked => ~pp'.allowed ]_vars
    /\ [][ (pp.locked /\ ~pp'.locked) => PasswordTyped' ]_vars
    /\ [](PasswordTyped => ~pp.locked)

=============================================================================
